---- MODULE Spec2Model ----
(***************************************************************************)
(* Scene graph of san-smith/Fyrox (src/src/scene/graph.rs): the node arena,*)
(* the structural editing operations, the reservation operations, the      *)
(* creation and removal of native physics entities and lifetime expiry.    *)
(***************************************************************************)
EXTENDS Integers, Sequences, FiniteSets, TLC

\* ------------------------------------------------------------------ bounds
MaxSlots == 3      \* records the arena may grow to
MaxGen == 2        \* highest generation a record may reach
MaxNative == 2     \* native physics handles the simulation hands out
MaxLife == 1       \* longest lifetime given to a node, in update steps
MaxCarried == 1    \* children a node handed to add_node may carry
MaxHeld == 1       \* tickets / sub-graphs held outside the graph at once
MaxCalls == 6      \* calls made on the graph in one run
MaxHierCalls == 4  \* calls in one run of the transform propagation
MaxUpdateCalls == 4 \* calls in one run of the rigid body synchronisation
MaxJointNodes == 5  \* nodes added in one run of the joint scenario
MaxJointCalls == 8  \* calls in one run of the joint scenario
MaxCopyCalls == 4   \* calls in one run of the deep copies
MaxCopySlots == 4   \* records the arena has before a deep copy
MaxUnlinkCalls == 5 \* calls in one run of the unlink scenario
MaxVisitCalls == 4  \* calls in one run of the serialization scenario
MaxLifeSpan == 2    \* longest lifetime in the lifetime scenario, in update steps
MaxLifeCalls == 5   \* calls in one run of the lifetime scenario
MaxBorrowNodes == 3 \* nodes added before the multi-handle borrows
MaxBorrowCalls == 2 \* calls in one run of the multi-handle borrows
MaxCloneCalls == 4  \* calls in one run of the clone scenario
MaxRayColliders == 3 \* colliders in the scene a ray is cast into
MaxToi == 2         \* times of impact are the integers 0..MaxToi
MaxRayCalls == 2    \* ray casts in one run
MaxTemplateNodes == 3 \* nodes of a template besides its root
MaxResolveCalls == 3  \* calls in one run of the resolve scenario
MaxSyncNodes == 3     \* physics nodes of the scene the sync pass runs on
MaxSyncWarm == 1      \* updates the scene has been through before the run
MaxSyncCalls == 3     \* calls in one run of the sync scenario
MaxReloadCalls == 3   \* calls in one run of the reload scenario
MaxSoundBuffers == 3  \* sound buffers, the ones a Visit loads included
MaxSources == 2       \* Source values the caller holds at once
MaxArchive == 1       \* sources written by a Visit
MaxSourceCalls == 5   \* calls in one run of the source scenario
MaxFrames == 3        \* frames of the output one call fills
MaxPlayCalls == 5     \* calls in one run of the playback scenario

\* --------------------------------------------------------------- handles
MkHandle(i, gen) == [index |-> i, generation |-> gen]
NONE == MkHandle(0, 0)
is_some(h) == h # NONE
is_none(h) == h = NONE
INVALID == 0       \* RigidBodyHandle::invalid() and friends

Kinds == {"Base", "RigidBody", "Collider", "Joint"}

VARIABLES
    records,       \* pool.records: Seq of [generation, payload]; payload <<>> or <<node>>
    free_stack,    \* pool.free_stack: Seq of record indices (0-based)
    root,          \* Graph::root
    collider_map,  \* Graph::collider_map: set of <<native collider, node handle>>
    bodies,        \* physics.bodies: set of native ids
    colliders,     \* physics.colliders: set of [id, parent]
    joints,        \* physics.joints: set of [id, body1, body2]
    body_data,     \* physics.bodies: [id, pos, rot, lin_vel, properties] of each rigid body
    next_native,   \* next native id the simulation containers hand out
    tickets,       \* (Ticket, Node) pairs the caller holds after take_reserve
    subgraphs,     \* SubGraph values the caller holds
    last,          \* the last call: operation, arguments, outcome
    calls,         \* number of calls made so far
    dead,          \* handles released so far: freed by remove_node or update,
                   \* or forgotten by forget_ticket / forget_sub_graph
    buffers,       \* sound buffers behind Arc<Mutex<Buffer>>: Seq of Buffer
    sources,       \* the caller's Source values: Seq of <<>> or <<Source>>
    archive        \* Source data written by Visit: Seq of saved sources

vars == <<records, free_stack, root, collider_map, bodies, colliders, joints,
          body_data, next_native, tickets, subgraphs, last, calls, dead,
          buffers, sources, archive>>

\* The sound subsystem is a separate one; the graph leaves it alone.
SoundVars == <<buffers, sources, archive>>
NoSound == buffers = <<>> /\ sources = <<>> /\ archive = <<>>

\* The graph as one value, so that the operations compose as in the code.
G == [records |-> records, free_stack |-> free_stack, root |-> root,
      collider_map |-> collider_map, bodies |-> bodies, colliders |-> colliders,
      joints |-> joints, body_data |-> body_data, next_native |-> next_native,
      log |-> <<>>, ok |-> TRUE]

Panic(g) == [g EXCEPT !.ok = FALSE]

\* ------------------------------------------------------ sequence helpers
Range(s) == {s[i] : i \in 1..Len(s)}
position(s, x) ==
    IF x \in Range(s)
    THEN CHOOSE i \in 1..Len(s) : s[i] = x /\ \A j \in 1..(i - 1) : s[j] # x
    ELSE 0
remove_at(s, i) == SubSeq(s, 1, i - 1) \o SubSeq(s, i + 1, Len(s))
Count(s, x) == Cardinality({i \in 1..Len(s) : s[i] = x})

\* ------------------------------------------------------------- the arena
\* Pool::is_valid_handle: the record exists, holds a value and has the
\* handle's generation.
pool_is_valid_handle(g, h) ==
    /\ h.index < Len(g.records)
    /\ g.records[h.index + 1].generation = h.generation
    /\ g.records[h.index + 1].payload # <<>>

\* Pool::try_borrow: Option<&Node> as a sequence of length 0 or 1.
pool_try_borrow(g, h) ==
    IF pool_is_valid_handle(g, h) THEN g.records[h.index + 1].payload ELSE <<>>

\* Graph::is_valid_handle
is_valid_handle(g, h) == pool_is_valid_handle(g, h)

\* Graph::try_get
try_get(g, h) == pool_try_borrow(g, h)

borrow(g, h) == g.records[h.index + 1].payload[1]
set_node(g, h, n) == [g EXCEPT !.records[h.index + 1].payload = <<n>>]

\* Handle of the record at index i, NONE when it holds nothing.
handle_from_index(g, i) ==
    IF i < Len(g.records) /\ g.records[i + 1].payload # <<>>
    THEN MkHandle(i, g.records[i + 1].generation)
    ELSE NONE

AliveHandles(g) ==
    {MkHandle(i, g.records[i + 1].generation) :
        i \in {j \in 0..(Len(g.records) - 1) : g.records[j + 1].payload # <<>>}}

\* Every handle the arena has issued so far.
IssuedHandles(g) ==
    UNION {{MkHandle(i, gen) : gen \in 1..g.records[i + 1].generation} :
              i \in 0..(Len(g.records) - 1)}

alive_count(g) == Cardinality(AliveHandles(g))

\* spawn that reuses a record without raising its generation
pool_spawn_same_generation(g, n) ==
    IF g.free_stack # <<>>
    THEN LET i == g.free_stack[Len(g.free_stack)]
             gen == g.records[i + 1].generation
         IN [g |-> [g EXCEPT !.free_stack = SubSeq(@, 1, Len(@) - 1),
                             !.records[i + 1] = [generation |-> gen, payload |-> <<n>>]],
             handle |-> MkHandle(i, gen)]
    ELSE [g |-> [g EXCEPT !.records = Append(@, [generation |-> 1, payload |-> <<n>>])],
          handle |-> MkHandle(Len(g.records), 1)]

\* spawn: reuse the record on top of the free stack with the next generation,
\* else push a new record of generation 1.
pool_spawn(g, n) ==
    IF g.free_stack # <<>>
    THEN LET i == g.free_stack[Len(g.free_stack)]
             gen == g.records[i + 1].generation + 1
         IN IF g.records[i + 1].payload # <<>>
            THEN [g |-> Panic(g), handle |-> NONE]
            ELSE [g |-> [g EXCEPT !.free_stack = SubSeq(@, 1, Len(@) - 1),
                                  !.records[i + 1] = [generation |-> gen, payload |-> <<n>>]],
                  handle |-> MkHandle(i, gen)]
    ELSE [g |-> [g EXCEPT !.records = Append(@, [generation |-> 1, payload |-> <<n>>])],
          handle |-> MkHandle(Len(g.records), 1)]

\* free: panics on an invalid handle; the index becomes reusable.
pool_free(g, h) ==
    IF ~is_valid_handle(g, h) THEN Panic(g)
    ELSE [g EXCEPT !.free_stack = Append(@, h.index),
                   !.records[h.index + 1].payload = <<>>]

\* take_reserve: the value leaves, the index is NOT pushed on the free stack.
pool_take_reserve(g, h) ==
    IF ~is_valid_handle(g, h) THEN Panic(g)
    ELSE [g EXCEPT !.records[h.index + 1].payload = <<>>]

\* put_back: the value returns to the ticket's index, generation unchanged.
pool_put_back(g, ticket, n) ==
    IF ticket >= Len(g.records) \/ g.records[ticket + 1].payload # <<>>
    THEN [g |-> Panic(g), handle |-> NONE]
    ELSE [g |-> [g EXCEPT !.records[ticket + 1].payload = <<n>>],
          handle |-> MkHandle(ticket, g.records[ticket + 1].generation)]

\* forget_ticket: the index becomes reusable.
pool_forget_ticket(g, ticket) == [g EXCEPT !.free_stack = Append(@, ticket)]

\* True when a spawn stays within the bounds of the model.
CanSpawn(g) ==
    IF g.free_stack # <<>>
    THEN g.records[g.free_stack[Len(g.free_stack)] + 1].generation < MaxGen
    ELSE Len(g.records) < MaxSlots

\* ------------------------------------------------ simulation containers
ColliderIds(g) == {c.id : c \in g.colliders}
JointIds(g) == {j.id : j \in g.joints}

\* RigidBodySet::remove: the body leaves with its attached colliders and joints.
bodies_remove(g, id) ==
    IF id \notin g.bodies THEN g
    ELSE [g EXCEPT !.bodies = @ \ {id},
                   !.body_data = {b \in @ : b.id # id},
                   !.colliders = {c \in @ : c.parent # id},
                   !.joints = {j \in @ : j.body1 # id /\ j.body2 # id}]

\* ColliderSet::remove
colliders_remove(g, id) == [g EXCEPT !.colliders = {c \in @ : c.id # id}]

\* JointSet::remove
joints_remove(g, id) == [g EXCEPT !.joints = {j \in @ : j.id # id}]

\* FxHashMap::remove / insert on collider_map
collider_map_remove(g, id) == [g EXCEPT !.collider_map = {e \in @ : e[1] # id}]
collider_map_insert(g, id, h) ==
    [g EXCEPT !.collider_map = {e \in @ : e[1] # id} \cup {<<id, h>>}]

\* ------------------------------------------------------------------ nodes
NoLifetime == <<>>                       \* Option<f32>: <<>> or <<seconds>>
Lifetimes == {NoLifetime} \cup {<<t>> : t \in 1..MaxLife}
Positions == {0, 1}                      \* local position; 0 is the origin

Scales == {1, 2}                         \* local scale

\* Positions are coordinates along one axis, rotations are angles about that
\* axis in radians and scales are uniform. A transform matrix is then the map
\* "scale by a, turn by c about the axis, move by b along it": <<a, b, c>>.
\* The product of two such matrices is the matrix of the composed map; whole
\* numbers of radians never add up to a full turn, so two matrices are equal
\* exactly when their triples are.
Identity == <<1, 0, 0>>
Mul(m, n) == <<m[1] * n[1], m[1] * n[2] + m[2], m[3] + n[3]>>

\* Transform::matrix of a node's local transform: scale, then rotation, then
\* translation.
local_matrix(n) == <<n.scale, n.pos, n.rest["rotation"]>>

\* The bits of RigidBodyChanges, ColliderChanges and JointChanges that
\* sync_native_physics tests.
RigidBodyBits ==
    {"BODY_TYPE", "LIN_VEL", "ANG_VEL", "MASS", "LIN_DAMPING", "ANG_DAMPING",
     "ROTATION_LOCKED"}
ColliderBits ==
    {"SHAPE", "RESTITUTION", "COLLISION_GROUPS", "SOLVER_GROUPS", "FRICTION", "IS_SENSOR"}
JointBits == {"PARAMS", "BODY1", "BODY2"}

\* The properties a node of each variant keeps next to its dirty bits, as a
\* function from the bit's name to the value (the linear velocity of a rigid
\* body is the field lin_vel; BODY1 and BODY2 are the fields body1, body2).
PropertyNames(kind) ==
    CASE kind = "RigidBody" -> RigidBodyBits \ {"LIN_VEL"}
      [] kind = "Collider" -> ColliderBits
      [] kind = "Joint" -> {"PARAMS"}
      [] OTHER -> {}
default_properties(kind) == [f \in PropertyNames(kind) |-> 0]

\* A collider shape without geometry (a Trimesh without sources, a
\* Heightfield whose node is not a terrain): it has no native shape.
NoGeometry == 2

\* ColliderShape::into_native_shape: Option of the native shape
into_native_shape(shape) == IF shape = NoGeometry THEN <<>> ELSE <<shape>>

\* The nine components of a local transform, in the order resolve goes through
\* them; a node holds position and scale as pos and scale and the other seven
\* in rest.
LocalComponents ==
    <<"position", "rotation", "scale", "pre_rotation", "post_rotation",
      "rotation_offset", "rotation_pivot", "scaling_offset", "scaling_pivot">>
OtherComponents == Range(LocalComponents) \ {"position", "scale"}

\* the name Graph::new gives the root, "__ROOT__"; the names of other nodes
\* are 0 (a node nobody named) or positive
RootName == -1

\* The node handles a collider's shape holds: the sources of a Trimesh, the
\* one geometry_source of a Heightfield, none for every other shape.
NoSources == [shape |-> "Other", sources |-> <<>>]
Trimesh(handles) == [shape |-> "Trimesh", sources |-> handles]
Heightfield(geometry_source) == [shape |-> "Heightfield", sources |-> <<geometry_source>>]

\* A node as its builder makes it: not scaled, visible, at rest, no dirty flags.
NewNode(kind, children, lifetime, pos, body1, body2) ==
    [kind |-> kind, parent |-> NONE, children |-> children, lifetime |-> lifetime,
     native |-> INVALID, pos |-> pos, body1 |-> body1, body2 |-> body2,
     scale |-> 1, visibility |-> TRUE, global_transform |-> Identity,
     global_visibility |-> TRUE, lin_vel |-> 0, transform_modified |-> FALSE,
     changes |-> {}, prop |-> NONE, properties |-> default_properties(kind),
     name |-> 0, resource |-> <<>>, original_handle_in_resource |-> NONE,
     is_resource_instance_root |-> FALSE, custom |-> {}, bones |-> <<>>,
     geometry |-> NoSources, lod_group |-> <<>>,
     rest |-> [component \in OtherComponents |-> 0]]

\* Base::local_transform_mut: handing out the local transform for writing
\* raises transform_modified
local_transform_mut(node) == [node EXCEPT !.transform_modified = TRUE]

\* the value of a local-transform component
local(node, component) ==
    IF component = "position" THEN node.pos
    ELSE IF component = "scale" THEN node.scale
    ELSE node.rest[component]

\* Transform::set_position, set_rotation, set_scale, ..: the component takes
\* the value and counts as set by hand from then on
set_local(node, component, value) ==
    [node EXCEPT !.pos = IF component = "position" THEN value ELSE @,
                 !.scale = IF component = "scale" THEN value ELSE @,
                 !.rest = IF component \in OtherComponents
                          THEN [@ EXCEPT ![component] = value] ELSE @,
                 !.custom = @ \cup {component}]

set_position(node, local_position) == set_local(node, "position", local_position)

\* ------------------------------------------------- structural operations
\* a graph whose root handle was left unset
GraphNew_no_root ==
    [records |-> <<[generation |-> 1,
                    payload |-> <<[NewNode("Base", <<>>, NoLifetime, 0, NONE, NONE)
                                      EXCEPT !.name = RootName]>>]>>,
     free_stack |-> <<>>, root |-> NONE, collider_map |-> {},
     bodies |-> {}, colliders |-> {}, joints |-> {}, body_data |-> {},
     next_native |-> 1, log |-> <<>>, ok |-> TRUE]

\* Graph::new
GraphNew ==
    [records |-> <<[generation |-> 1,
                    payload |-> <<[NewNode("Base", <<>>, NoLifetime, 0, NONE, NONE)
                                      EXCEPT !.name = RootName]>>]>>,
     free_stack |-> <<>>, root |-> MkHandle(0, 1), collider_map |-> {},
     bodies |-> {}, colliders |-> {}, joints |-> {}, body_data |-> {},
     next_native |-> 1, log |-> <<>>, ok |-> TRUE]

\* "if let Some(i) = children.iter().position(..) { children.remove(i) }"
remove_child(children, node_handle) ==
    IF position(children, node_handle) # 0
    THEN remove_at(children, position(children, node_handle))
    ELSE children

\* the "Remove child from parent's children list" step of unlink_internal
remove_from_parent(g, node_handle, parent_handle) ==
    IF is_none(parent_handle) THEN g
    ELSE IF ~is_valid_handle(g, parent_handle) THEN Panic(g)
    ELSE set_node(g, parent_handle,
                  [borrow(g, parent_handle) EXCEPT
                     !.children = remove_child(@, node_handle)])

\* the removal of the native collider that leaves its collider_map entry
remove_native_collider_keeps_map(g, node_handle) ==
    IF ~g.ok THEN g
    ELSE IF borrow(g, node_handle).kind = "Collider"
            /\ borrow(g, node_handle).native \in ColliderIds(g)
    THEN set_node(colliders_remove(g, borrow(g, node_handle).native),
                  node_handle, [borrow(g, node_handle) EXCEPT !.native = INVALID])
    ELSE g

\* the "Remove native collider when detaching a collider node" step of
\* unlink_internal
remove_native_collider(g, node_handle) ==
    IF ~g.ok THEN g
    ELSE IF borrow(g, node_handle).kind = "Collider"
            /\ borrow(g, node_handle).native \in ColliderIds(g)
    THEN set_node(colliders_remove(collider_map_remove(g, borrow(g, node_handle).native),
                                   borrow(g, node_handle).native),
                  node_handle, [borrow(g, node_handle) EXCEPT !.native = INVALID])
    ELSE g

\* Graph::unlink_internal: the parent handle of the node is replaced by NONE,
\* the node leaves the children of its former parent, and a collider node loses
\* its native collider.
unlink_internal(g, node_handle) ==
    IF ~g.ok THEN g
    ELSE IF ~is_valid_handle(g, node_handle) THEN Panic(g)
    ELSE remove_native_collider(
             remove_from_parent(
                 set_node(g, node_handle, [borrow(g, node_handle) EXCEPT !.parent = NONE]),
                 node_handle, borrow(g, node_handle).parent),
             node_handle)

\* link_nodes without the detach from the current parent
link_nodes_no_detach(g, child, parent) ==
    IF ~is_valid_handle(g, child) \/ ~is_valid_handle(g, parent) THEN Panic(g)
    ELSE LET g2 == set_node(g, child, [borrow(g, child) EXCEPT !.parent = parent])
         IN  set_node(g2, parent, [borrow(g2, parent) EXCEPT !.children = Append(@, child)])

\* "self.pool[child].parent = parent" of link_nodes
set_parent(g, child, parent) ==
    IF ~g.ok THEN g
    ELSE set_node(g, child, [borrow(g, child) EXCEPT !.parent = parent])

\* "self.pool[parent].children.push(child)" of link_nodes
push_child(g, parent, child) ==
    IF ~g.ok THEN g
    ELSE IF ~is_valid_handle(g, parent) THEN Panic(g)
    ELSE set_node(g, parent, [borrow(g, parent) EXCEPT !.children = Append(@, child)])

\* Graph::link_nodes
link_nodes(g, child, parent) ==
    push_child(set_parent(unlink_internal(g, child), child, parent), parent, child)

\* "local_transform_mut().set_position(Vector3::default())" of unlink_node
reset_position(g, node_handle) ==
    IF ~g.ok THEN g
    ELSE set_node(g, node_handle,
                  set_position(local_transform_mut(borrow(g, node_handle)), 0))

\* unlink_node that keeps the local position of the node
unlink_node_keeps_position(g, node_handle) ==
    link_nodes(unlink_internal(g, node_handle), node_handle, g.root)

\* Graph::unlink_node
unlink_node(g, node_handle) ==
    reset_position(link_nodes(unlink_internal(g, node_handle), node_handle, g.root),
                   node_handle)

\* the loop "for child in children { self.link_nodes(child, handle) }" of add_node
RECURSIVE link_children(_, _, _)
link_children(g, children, handle) ==
    IF ~g.ok \/ children = <<>> THEN g
    ELSE link_children(link_nodes(g, Head(children), handle), Tail(children), handle)

\* add_node that keeps the carried children list instead of re-linking them
add_node_keep_children(g, node) ==
    LET s == pool_spawn(g, node)
    IN  [g |-> IF ~s.g.ok THEN s.g
               ELSE IF is_some(s.g.root) THEN link_nodes(s.g, s.handle, s.g.root)
               ELSE s.g,
         handle |-> s.handle]

\* Graph::add_node
add_node(g, node) ==
    LET children == node.children
        s == pool_spawn(g, [node EXCEPT !.children = <<>>])
        g1 == IF ~s.g.ok THEN s.g
              ELSE IF is_some(s.g.root) THEN link_nodes(s.g, s.handle, s.g.root)
              ELSE s.g
    IN  [g |-> link_children(g1, children, s.handle), handle |-> s.handle]

\* the "Remove associated entities" match of remove_node
remove_entities(g, node) ==
    CASE node.kind = "RigidBody" -> bodies_remove(g, node.native)
      [] node.kind = "Collider" ->
             colliders_remove(collider_map_remove(g, node.native), node.native)
      [] node.kind = "Joint" -> joints_remove(g, node.native)
      [] OTHER -> g

\* the loop of remove_node without the push of the children on the stack
RECURSIVE remove_loop_no_children(_, _)
remove_loop_no_children(g, stack) ==
    IF ~g.ok \/ stack = <<>> THEN g
    ELSE LET handle == stack[Len(stack)]
             rest == SubSeq(stack, 1, Len(stack) - 1)
         IN  IF ~is_valid_handle(g, handle) THEN Panic(g)
             ELSE remove_loop_no_children(
                      remove_entities(pool_free(g, handle), borrow(g, handle)), rest)

\* the "while let Some(handle) = self.stack.pop()" loop of remove_node
RECURSIVE remove_loop(_, _)
remove_loop(g, stack) ==
    IF ~g.ok \/ stack = <<>> THEN g
    ELSE LET handle == stack[Len(stack)]
             rest == SubSeq(stack, 1, Len(stack) - 1)
         IN  IF ~is_valid_handle(g, handle) THEN Panic(g)
             ELSE LET node == borrow(g, handle)
                  IN  remove_loop(remove_entities(pool_free(g, handle), node),
                                  rest \o node.children)

\* Graph::remove_node
remove_node(g, node_handle) ==
    remove_loop(unlink_internal(g, node_handle), <<node_handle>>)

\* ------------------------------------------------- reservation operations
\* take_reserve that frees the record instead of reserving it
take_reserve_frees_slot(g, handle) ==
    LET g1 == unlink_internal(g, handle)
    IN  IF ~g1.ok THEN [g |-> g1, ticket |-> 0, node |-> <<>>]
        ELSE [g |-> pool_free(g1, handle), ticket |-> handle.index,
              node |-> <<borrow(g1, handle)>>]

\* "self.pool.take_reserve(handle)" of take_reserve, on the unlinked node
take_unlinked(g, handle) ==
    IF ~g.ok THEN [g |-> g, ticket |-> 0, node |-> <<>>]
    ELSE [g |-> pool_take_reserve(g, handle), ticket |-> handle.index,
          node |-> <<borrow(g, handle)>>]

\* Graph::take_reserve: the result is the graph, the ticket and the node.
take_reserve(g, handle) == take_unlinked(unlink_internal(g, handle), handle)

\* Graph::put_back
put_back(g, ticket, node) ==
    LET s == pool_put_back(g, ticket, node)
    IN  IF ~s.g.ok THEN s ELSE [g |-> link_nodes(s.g, s.handle, s.g.root), handle |-> s.handle]

\* Graph::forget_ticket
forget_ticket(g, ticket) == pool_forget_ticket(g, ticket)

\* the "Take out descendants first" loop of take_reserve_sub_graph
RECURSIVE take_descendants(_, _, _)
take_descendants(g, stack, descendants) ==
    IF ~g.ok \/ stack = <<>> THEN [g |-> g, descendants |-> descendants]
    ELSE LET handle == stack[Len(stack)]
             rest == SubSeq(stack, 1, Len(stack) - 1)
         IN  IF ~is_valid_handle(g, handle) THEN [g |-> Panic(g), descendants |-> descendants]
             ELSE take_descendants(pool_take_reserve(g, handle),
                                   rest \o borrow(g, handle).children,
                                   Append(descendants, [ticket |-> handle.index,
                                                        node |-> borrow(g, handle)]))

\* Graph::take_reserve_sub_graph: the result is the graph and the SubGraph.
take_reserve_sub_graph(g, r) ==
    IF ~is_valid_handle(g, r) THEN [g |-> Panic(g), sub_graph |-> <<>>]
    ELSE LET d == take_descendants(g, borrow(g, r).children, <<>>)
             t == take_reserve(d.g, r)
         IN  IF ~t.g.ok THEN [g |-> t.g, sub_graph |-> <<>>]
             ELSE [g |-> t.g,
                   sub_graph |-> <<[root |-> [ticket |-> t.ticket, node |-> t.node[1]],
                                    descendants |-> d.descendants]>>]

\* the "for (ticket, node) in sub_graph.descendants" loop of put_sub_graph_back
RECURSIVE put_descendants(_, _)
put_descendants(g, descendants) ==
    IF ~g.ok \/ descendants = <<>> THEN g
    ELSE put_descendants(pool_put_back(g, Head(descendants).ticket,
                                       Head(descendants).node).g,
                         Tail(descendants))

\* put_sub_graph_back that puts back the root of the sub-graph only
put_sub_graph_back_root_only(g, sub_graph) ==
    LET s == put_back(g, sub_graph.root.ticket, sub_graph.root.node)
    IN  [g |-> IF s.g.ok THEN link_nodes(s.g, s.handle, s.g.root) ELSE s.g,
         handle |-> s.handle]

\* "self.link_nodes(root_handle, self.root)" of put_sub_graph_back
relink_root(s) ==
    [g |-> IF s.g.ok THEN link_nodes(s.g, s.handle, s.g.root) ELSE s.g,
     handle |-> s.handle]

\* "let root_handle = self.put_back(root_ticket, root_node)" and the link of
\* put_sub_graph_back, once the descendants are back
put_root_back(g, sub_graph) ==
    IF ~g.ok THEN [g |-> g, handle |-> NONE]
    ELSE relink_root(put_back(g, sub_graph.root.ticket, sub_graph.root.node))

\* Graph::put_sub_graph_back
put_sub_graph_back(g, sub_graph) ==
    put_root_back(put_descendants(g, sub_graph.descendants), sub_graph)

\* the "for (ticket, _) in sub_graph.descendants" loop of forget_sub_graph
RECURSIVE forget_descendants(_, _)
forget_descendants(g, descendants) ==
    IF descendants = <<>> THEN g
    ELSE forget_descendants(pool_forget_ticket(g, Head(descendants).ticket),
                            Tail(descendants))

\* forget_sub_graph that forgets the ticket of the root only
forget_sub_graph_root_only(g, sub_graph) ==
    pool_forget_ticket(g, sub_graph.root.ticket)

\* Graph::forget_sub_graph
forget_sub_graph(g, sub_graph) ==
    pool_forget_ticket(forget_descendants(g, sub_graph.descendants), sub_graph.root.ticket)

\* Graph::node_count
node_count(g) == alive_count(g)

\* ------------------------------------------------------- physics and update
\* RigidBodySet::insert, ColliderSet::insert_with_parent, JointSet::insert
bodies_insert(g, pos, rot, lin_vel, properties) ==
    [g EXCEPT !.bodies = @ \cup {g.next_native},
              !.body_data = @ \cup {[id |-> g.next_native, pos |-> pos, rot |-> rot,
                                      lin_vel |-> lin_vel, properties |-> properties]},
              !.next_native = @ + 1]

\* RigidBodySet::get: the body with the given native handle
body(g, id) == CHOOSE b \in g.body_data : b.id = id
set_body(g, id, b) == [g EXCEPT !.body_data = {x \in @ : x.id # id} \cup {b}]

\* an entry of the record of what a call did, in order
logged(g, phase) == [g EXCEPT !.log = Append(@, phase)]

colliders_insert_with_parent(g, parent, pos, properties) ==
    IF parent \notin g.bodies THEN Panic(g)
    ELSE [g EXCEPT !.colliders = @ \cup {[id |-> g.next_native, parent |-> parent,
                                           pos |-> pos, properties |-> properties]},
                   !.next_native = @ + 1]
joints_insert(g, body1, body2, params) ==
    [g EXCEPT !.joints = @ \cup {[id |-> g.next_native, body1 |-> body1, body2 |-> body2,
                                   params |-> params]},
              !.next_native = @ + 1]

\* ColliderSet::get_mut, JointSet::get_mut: the entity with the given native handle
native_collider(g, id) == CHOOSE c \in g.colliders : c.id = id
set_collider(g, id, c) == [g EXCEPT !.colliders = {x \in @ : x.id # id} \cup {c}]
native_joint(g, id) == CHOOSE j \in g.joints : j.id = id
set_joint(g, id, j) == [g EXCEPT !.joints = {x \in @ : x.id # id} \cup {j}]

\* isometric_global_transform indexes the pool with every ancestor of the node:
\* it panics when the chain of parents reaches a handle that is not valid.
RECURSIVE ancestors_valid(_, _, _)
ancestors_valid(g, h, fuel) ==
    IF fuel = 0 \/ ~is_valid_handle(g, h) THEN FALSE
    ELSE IF is_none(borrow(g, h).parent) THEN TRUE
    ELSE ancestors_valid(g, borrow(g, h).parent, fuel - 1)

\* "if changes.contains(BIT) { native.set_..(node value); changes.remove(BIT) }"
\* for every bit of bits: the entity's properties after the writes
push_dirty(native, node, bits) ==
    [f \in DOMAIN native |->
        IF f \in bits /\ f \in node.changes THEN node.properties[f] ELSE native[f]]

\* the RigidBody arm that leaves the node's flags as they were
sync_rigid_body_keep_flags(g, handle, node) ==
    IF node.native \in g.bodies
    THEN LET b0 == body(g, node.native)
             b1 == IF node.transform_modified
                   THEN [b0 EXCEPT !.pos = node.pos, !.rot = node.rest["rotation"]] ELSE b0
             b2 == IF "LIN_VEL" \in node.changes THEN [b1 EXCEPT !.lin_vel = node.lin_vel]
                   ELSE b1
         IN  set_body(g, node.native,
                      [b2 EXCEPT !.properties = push_dirty(@, node, RigidBodyBits)])
    ELSE set_node(bodies_insert(g, node.pos, node.rest["rotation"], node.lin_vel,
                                node.properties), handle,
                  [node EXCEPT !.native = g.next_native])

\* the RigidBody arm that writes the node's pose whether it was modified or not
sync_rigid_body_always_pose(g, handle, node) ==
    IF node.native \in g.bodies
    THEN LET b0 == body(g, node.native)
             b1 == [b0 EXCEPT !.pos = node.pos, !.rot = node.rest["rotation"]]
             b2 == IF "LIN_VEL" \in node.changes THEN [b1 EXCEPT !.lin_vel = node.lin_vel]
                   ELSE b1
         IN  set_node(set_body(g, node.native,
                               [b2 EXCEPT !.properties = push_dirty(@, node, RigidBodyBits)]),
                      handle,
                      [node EXCEPT !.transform_modified = FALSE,
                                   !.changes = @ \ RigidBodyBits])
    ELSE set_node(bodies_insert(g, node.pos, node.rest["rotation"], node.lin_vel,
                                node.properties), handle,
                  [node EXCEPT !.native = g.next_native])

\* the RigidBody arm of sync_native_physics
sync_rigid_body(g, handle, node) ==
    IF node.native \in g.bodies
    THEN LET b0 == body(g, node.native)
             b1 == IF node.transform_modified
                   THEN [b0 EXCEPT !.pos = node.pos, !.rot = node.rest["rotation"]] ELSE b0
             b2 == IF "LIN_VEL" \in node.changes THEN [b1 EXCEPT !.lin_vel = node.lin_vel]
                   ELSE b1
         IN  set_node(set_body(g, node.native,
                               [b2 EXCEPT !.properties = push_dirty(@, node, RigidBodyBits)]),
                      handle,
                      [node EXCEPT !.transform_modified = FALSE,
                                   !.changes = @ \ RigidBodyBits])
    ELSE set_node(bodies_insert(g, node.pos, node.rest["rotation"], node.lin_vel,
                                node.properties), handle,
                  [node EXCEPT !.native = g.next_native])

\* a Collider arm that drains SHAPE whether the shape converts or not
drained_bits_all(node) == ColliderBits

\* the bits the Collider arm drains: SHAPE only when the shape has a native shape
drained_bits(node) ==
    IF into_native_shape(node.properties["SHAPE"]) = <<>>
    THEN ColliderBits \ {"SHAPE"} ELSE ColliderBits

\* the first branch of the Collider arm: the node has a native collider
sync_existing_collider(g, handle, node) ==
    IF "SHAPE" \in node.changes /\ ~ancestors_valid(g, handle, Len(g.records) + 1)
    THEN Panic(g)
    ELSE LET c0 == native_collider(g, node.native)
             c1 == IF node.transform_modified THEN [c0 EXCEPT !.pos = node.pos] ELSE c0
         IN  set_node(set_collider(g, node.native,
                         [c1 EXCEPT !.properties = push_dirty(@, node, drained_bits(node))]),
                      handle,
                      [node EXCEPT !.transform_modified = FALSE,
                                   !.changes = @ \ drained_bits(node)])

\* the Collider arm that makes a native collider whatever the node's parent is
sync_collider_any_parent(g, handle, node) ==
    IF node.native \in ColliderIds(g) THEN sync_existing_collider(g, handle, node)
    ELSE IF g.bodies = {} \/ into_native_shape(node.properties["SHAPE"]) = <<>> THEN g
    ELSE set_node(collider_map_insert(
                      colliders_insert_with_parent(g, CHOOSE b \in g.bodies : TRUE,
                                                   node.pos, node.properties),
                      g.next_native, handle),
                  handle, [node EXCEPT !.native = g.next_native])

\* the Collider arm that does not store the new native in the node
sync_collider_forgets_native(g, handle, node) ==
    IF node.native \in ColliderIds(g) THEN sync_existing_collider(g, handle, node)
    ELSE LET parent == try_get(g, node.parent)
         IN  IF parent # <<>> /\ parent[1].kind = "RigidBody"
                /\ parent[1].native \in g.bodies
                /\ into_native_shape(node.properties["SHAPE"]) # <<>>
             THEN collider_map_insert(
                      colliders_insert_with_parent(g, parent[1].native, node.pos,
                                                   node.properties),
                      g.next_native, handle)
             ELSE g

\* the Collider arm of sync_native_physics
sync_collider(g, handle, node) ==
    IF node.native \in ColliderIds(g) THEN sync_existing_collider(g, handle, node)
    ELSE LET parent == try_get(g, node.parent)
         IN  IF parent # <<>> /\ parent[1].kind = "RigidBody"
                /\ parent[1].native # INVALID
             THEN IF ~ancestors_valid(g, handle, Len(g.records) + 1) THEN Panic(g)
                  ELSE IF into_native_shape(node.properties["SHAPE"]) = <<>> THEN g
                  ELSE
                  LET g1 == colliders_insert_with_parent(g, parent[1].native, node.pos,
                                                         node.properties)
                  IN  IF ~g1.ok THEN g1
                      ELSE set_node(collider_map_insert(g1, g.next_native, handle),
                                    handle, [node EXCEPT !.native = g.next_native])
             ELSE g

\* the Joint arm of sync_native_physics
sync_joint(g, handle, node) ==
    IF node.native \in JointIds(g)
    THEN set_node(IF "PARAMS" \in node.changes
                  THEN set_joint(g, node.native,
                                 [native_joint(g, node.native) EXCEPT
                                     !.params = node.properties["PARAMS"]])
                  ELSE g,
                  handle, [node EXCEPT !.changes = @ \ JointBits])
    ELSE LET body1 == try_get(g, node.body1)
             body2 == try_get(g, node.body2)
         IN  IF body1 # <<>> /\ body2 # <<>>
                /\ body1[1].kind = "RigidBody" /\ body2[1].kind = "RigidBody"
             THEN set_node(joints_insert(g, body1[1].native, body2[1].native,
                                         node.properties["PARAMS"]),
                           handle, [node EXCEPT !.native = g.next_native])
             ELSE g

\* the loop body of a sync pass that walks the arena from its last record down
sync_node_reversed(g, i) ==
    LET k == Len(g.records) - 1 - i
    IN  IF g.records[k + 1].payload = <<>> THEN g
        ELSE
        LET handle == MkHandle(k, g.records[k + 1].generation)
            node == g.records[k + 1].payload[1]
            g0 == logged(g, "sync")
        IN  CASE node.kind = "RigidBody" -> sync_rigid_body(g0, handle, node)
              [] node.kind = "Collider" -> sync_collider(g0, handle, node)
              [] node.kind = "Joint" -> sync_joint(g0, handle, node)
              [] OTHER -> g0

\* one iteration of the loop of sync_native_physics, on the record at index i
sync_node(g, i) ==
    IF g.records[i + 1].payload = <<>> THEN g
    ELSE
    LET handle == MkHandle(i, g.records[i + 1].generation)
        node == g.records[i + 1].payload[1]
        g0 == logged(g, "sync")
    IN  CASE node.kind = "RigidBody" -> sync_rigid_body(g0, handle, node)
          [] node.kind = "Collider" -> sync_collider(g0, handle, node)
          [] node.kind = "Joint" -> sync_joint(g0, handle, node)
          [] OTHER -> g0

\* Graph::sync_native_physics: the records in index order, from index i on
RECURSIVE sync_from(_, _)
sync_from(g, i) ==
    IF ~g.ok \/ i >= Len(g.records) THEN g ELSE sync_from(sync_node(g, i), i + 1)

sync_native_physics(g) == sync_from(g, 0)

\* PhysicsWorld::update: one step of the simulation moves every body by its
\* linear velocity and turns it by its angular velocity.
physics_update(g) ==
    IF ~g.ok THEN g
    ELSE [logged(g, "step") EXCEPT
        !.body_data = {[b EXCEPT !.pos = b.pos + b.lin_vel,
                                 !.rot = b.rot + b.properties["ANG_VEL"]] : b \in @}]

RECURSIVE update_recursively(_, _, _)
RECURSIVE update_children(_, _, _)

\* update_recursively that multiplies the local matrix by the parent's, in
\* that order
update_recursively_swapped(g, node_handle, fuel) ==
    IF ~g.ok THEN g
    ELSE IF fuel = 0 \/ ~is_valid_handle(g, node_handle) THEN Panic(g)
    ELSE LET node == borrow(g, node_handle)
             parent == pool_try_borrow(g, node.parent)
             parent_global_transform ==
                 IF parent # <<>> THEN parent[1].global_transform ELSE Identity
             parent_visibility ==
                 IF parent # <<>> THEN parent[1].global_visibility ELSE TRUE
             g1 == set_node(logged(g, "hierarchy"), node_handle,
                     [node EXCEPT
                        !.global_transform = Mul(local_matrix(node), parent_global_transform),
                        !.global_visibility = parent_visibility /\ node.visibility])
         IN  update_children(g1, node.children, fuel - 1)

\* update_recursively that takes the node's own flag as its global visibility
update_recursively_own_visibility(g, node_handle, fuel) ==
    IF ~g.ok THEN g
    ELSE IF fuel = 0 \/ ~is_valid_handle(g, node_handle) THEN Panic(g)
    ELSE LET node == borrow(g, node_handle)
             parent == pool_try_borrow(g, node.parent)
             parent_global_transform ==
                 IF parent # <<>> THEN parent[1].global_transform ELSE Identity
             g1 == set_node(logged(g, "hierarchy"), node_handle,
                     [node EXCEPT
                        !.global_transform = Mul(parent_global_transform, local_matrix(node)),
                        !.global_visibility = node.visibility])
         IN  update_children(g1, node.children, fuel - 1)

\* update_recursively of update_hierarchical_data: the node, then its children
\* in order; fuel bounds the depth of the recursion (the call stack).
update_recursively(g, node_handle, fuel) ==
    IF ~g.ok THEN g
    ELSE IF fuel = 0 \/ ~is_valid_handle(g, node_handle) THEN Panic(g)
    ELSE LET node == borrow(g, node_handle)
             parent == pool_try_borrow(g, node.parent)
             parent_global_transform ==
                 IF parent # <<>> THEN parent[1].global_transform ELSE Identity
             parent_visibility ==
                 IF parent # <<>> THEN parent[1].global_visibility ELSE TRUE
             g1 == set_node(logged(g, "hierarchy"), node_handle,
                     [node EXCEPT
                        !.global_transform = Mul(parent_global_transform, local_matrix(node)),
                        !.global_visibility = parent_visibility /\ node.visibility])
         IN  update_children(g1, node.children, fuel - 1)
update_children(g, children, fuel) ==
    IF ~g.ok \/ children = <<>> THEN g
    ELSE update_children(update_recursively(g, Head(children), fuel), Tail(children), fuel)

\* Graph::update_hierarchical_data
update_hierarchical_data(g) == update_recursively(g, g.root, Len(g.records) + 1)

\* the per-node pass without the copy of the body's state to the node
resync_rigid_body_skipped(g, handle, node) == g

\* the RigidBody arm of the per-node pass of update: the node takes the
\* position, the rotation and the two velocities of its body; the pose goes
\* through "rigid_body.local_transform.set_position(..).set_rotation(..)",
\* which does not go through local_transform_mut, and the velocities are
\* assigned to the fields lin_vel and ang_vel, which sets no dirty bit
resync_rigid_body(g, handle, node) ==
    IF node.kind = "RigidBody" /\ node.native \in g.bodies
    THEN set_node(g, handle,
                  [set_local(set_position(node, body(g, node.native).pos),
                             "rotation", body(g, node.native).rot)
                      EXCEPT !.lin_vel = body(g, node.native).lin_vel,
                             !.properties["ANG_VEL"] =
                                 body(g, node.native).properties["ANG_VEL"]])
    ELSE g

\* one iteration of the per-node loop of update, on the record at index i
update_node(g, i, dt) ==
    IF g.records[i + 1].payload = <<>> THEN g
    ELSE
    LET handle == handle_from_index(g, i)
        node == g.records[i + 1].payload[1]
        remove == node.lifetime # <<>> /\ node.lifetime[1] - dt <= 0
        g0 == logged(g, "node")
        g1 == IF node.lifetime # <<>>
              THEN set_node(g0, handle, [node EXCEPT !.lifetime = <<node.lifetime[1] - dt>>])
              ELSE g0
    IN  IF remove THEN remove_node(g1, handle)
        ELSE resync_rigid_body(g1, handle, borrow(g1, handle))

\* the loop "for i in 0..self.pool.get_capacity()" of update, from index i on
RECURSIVE update_from(_, _, _, _)
update_from(g, i, capacity, dt) ==
    IF ~g.ok \/ i >= capacity THEN g
    ELSE update_from(update_node(g, i, dt), i + 1, capacity, dt)

\* the per-node pass of update: the capacity is read once, before the loop
update_nodes(g, dt) == update_from(g, 0, Len(g.records), dt)

\* update that steps the simulation before it pushes the nodes' changes
update_step_first(g, dt) ==
    update_nodes(update_hierarchical_data(sync_native_physics(physics_update(g))), dt)

\* update that propagates the transforms after the per-node pass
update_propagating_last(g, dt) ==
    update_hierarchical_data(update_nodes(physics_update(sync_native_physics(g)), dt))

\* Graph::update
update(g, dt) ==
    update_nodes(update_hierarchical_data(physics_update(sync_native_physics(g))), dt)

\* ---------------------------------------------------------------- tree shape
\* Handles reachable from a set of handles through the children lists.
RECURSIVE Reach(_, _, _)
Reach(g, frontier, seen) ==
    IF frontier \subseteq seen THEN seen
    ELSE LET new == frontier \ seen
         IN  Reach(g, UNION {Range(borrow(g, h).children) :
                               h \in {x \in new : is_valid_handle(g, x)}},
                   seen \cup new)

\* h and its descendants.
Subtree(g, h) == Reach(g, {h}, {})

\* ---------------------------------------------------------------- deep copy
\* FxHashMap<Handle<Node>, Handle<Node>>: a set of <<old, new>> pairs with at
\* most one pair per key.
map_insert(m, k, v) == {e \in m : e[1] # k} \cup {<<k, v>>}
map_get(m, k) == IF \E e \in m : e[1] = k THEN <<(CHOOSE e \in m : e[1] = k)[2]>> ELSE <<>>
map_keys(m) == {e[1] : e \in m}
map_values(m) == {e[2] : e \in m}

\* Node::raw_copy: the node's own data without its links and without a native.
raw_copy(node) ==
    [node EXCEPT !.parent = NONE, !.children = <<>>, !.native = INVALID,
                 !.transform_modified = FALSE, !.changes = {}]

\* old_new_mapping.get(handle), or the handle itself when it has no entry
remapped(m, handle) == IF map_get(m, handle) # <<>> THEN map_get(m, handle)[1] ELSE handle

\* remap_handles that leaves every handle as it was copied
remap_handles_identity(old_new_mapping, dest_graph) == dest_graph

\* "if let Some(entry) = old_new_mapping.get(handle) { *handle = *entry }" on
\* each handle of a list
remapped_each(m, handles) == [i \in 1..Len(handles) |-> remapped(m, handles[i])]

\* level.objects.retain_mut_ext(..): the objects the map has an entry for,
\* each replaced by its entry; the others are discarded
retain_mapped(m, objects) ==
    remapped_each(m, SelectSeq(objects, LAMBDA object : map_get(m, object) # <<>>))

\* one iteration of the loop of remap_handles, on the copy new_node_handle:
\* the match on the node's variant, then its node-handle property, then the
\* levels of its LOD group (lod_group is <<>> or <<levels>>)
remap_node(m, dest_graph, new_node_handle) ==
    IF ~is_valid_handle(dest_graph, new_node_handle) THEN Panic(dest_graph)
    ELSE LET new_node == borrow(dest_graph, new_node_handle)
             matched ==
                 CASE new_node.kind = "Mesh" ->
                        [new_node EXCEPT !.bones = remapped_each(m, @)]
                   [] new_node.kind = "Collider" ->
                        [new_node EXCEPT
                           !.geometry.sources =
                              IF new_node.geometry.shape \in {"Trimesh", "Heightfield"}
                              THEN remapped_each(m, @) ELSE @]
                   [] new_node.kind = "Joint" ->
                        [new_node EXCEPT
                           !.body1 = remapped(m, @), !.body2 = remapped(m, @),
                           !.changes = @ \cup
                              (IF map_get(m, new_node.body1) # <<>> THEN {"BODY1"} ELSE {})
                              \cup
                              (IF map_get(m, new_node.body2) # <<>> THEN {"BODY2"} ELSE {})]
                   [] OTHER -> new_node
         IN  set_node(dest_graph, new_node_handle,
                      [matched EXCEPT
                         !.prop = remapped(m, @),
                         !.lod_group =
                            [k \in 1..Len(matched.lod_group) |->
                               [l \in 1..Len(matched.lod_group[k]) |->
                                  retain_mapped(m, matched.lod_group[k][l])]]])

RECURSIVE remap_over(_, _, _)
remap_over(m, dest_graph, todo) ==
    IF ~dest_graph.ok \/ todo = {} THEN dest_graph
    ELSE LET h == CHOOSE x \in todo : TRUE
         IN  remap_over(m, remap_node(m, dest_graph, h), todo \ {h})

\* remap_handles: every copy is visited once; the visits do not depend on each
\* other, so the order of the hash map does not matter.
remap_handles(old_new_mapping, dest_graph) ==
    remap_over(old_new_mapping, dest_graph, map_values(old_new_mapping))

\* Graph::copy_node_raw; filter is the set of handles the predicate accepts.
\* The copy in progress is the record st: the destination graph, the map and
\* the handle of the copy whose children are being copied.
RECURSIVE copy_node_raw(_, _, _, _, _, _)
RECURSIVE copy_children(_, _, _, _, _)

\* "old_new_mapping.insert(root_handle, dest_copy_handle)" after add_node gave r
copy_root(r, m, root_handle) ==
    [dest |-> r.g, map |-> map_insert(m, root_handle, r.handle), handle |-> r.handle]

\* "dest_graph.link_nodes(dest_child_handle, dest_copy_handle)" after the
\* recursive call gave r
link_copy(r, dest_copy_handle) ==
    [dest |-> IF ~r.dest.ok \/ is_none(r.handle) THEN r.dest
              ELSE link_nodes(r.dest, r.handle, dest_copy_handle),
     map |-> r.map, handle |-> dest_copy_handle]

copy_node_raw(src, root_handle, dest_graph, m, filter, fuel) ==
    IF ~dest_graph.ok THEN [dest |-> dest_graph, map |-> m, handle |-> NONE]
    ELSE IF fuel = 0 \/ ~is_valid_handle(src, root_handle)
    THEN [dest |-> Panic(dest_graph), map |-> m, handle |-> NONE]
    ELSE copy_children(src, borrow(src, root_handle).children,
                       copy_root(add_node(dest_graph, raw_copy(borrow(src, root_handle))),
                                 m, root_handle),
                       filter, fuel - 1)

\* the loop over src_node.children() of copy_node_raw
copy_children(src, cs, st, filter, fuel) ==
    IF ~st.dest.ok \/ cs = <<>> THEN st
    ELSE IF ~is_valid_handle(src, Head(cs))
    THEN [dest |-> Panic(st.dest), map |-> st.map, handle |-> NONE]
    ELSE IF Head(cs) \in filter
    THEN copy_children(src, Tail(cs),
                       link_copy(copy_node_raw(src, Head(cs), st.dest, st.map, filter, fuel),
                                 st.handle),
                       filter, fuel)
    ELSE copy_children(src, Tail(cs), st, filter, fuel)

\* "remap_handles(&old_new_mapping, dest_graph)" on the result r of copy_node_raw
copy_remapped(r) ==
    [dest |-> remap_handles(r.map, r.dest), map |-> r.map, handle |-> r.handle]

\* Graph::copy_node
copy_node(src, node_handle, dest_graph, filter) ==
    copy_remapped(copy_node_raw(src, node_handle, dest_graph, {}, filter,
                                Len(src.records) + 1))

\* the entries a traversal pushes for the children of a node popped at depth
\* depth: the handles in order, each with the number of nodes on the way to it
pushed(children_of, depth) ==
    [i \in 1..Len(children_of) |-> [node |-> children_of[i], depth |-> depth + 1]]

\* traverse_handle_iter(from) collected: the handles in the order the iterator
\* pops them, each with a clone of its children. A node reached twice is
\* visited twice. "self.graph[handle]" panics on a handle that is not valid.
\* The iterator ends unless the hierarchy has a cycle: a handle popped with
\* more nodes on the way to it than the pool has records lies on one, and the
\* stack then grows without end. ok is FALSE when the collection does not
\* return.
RECURSIVE traverse_handle_iter(_, _, _)
traverse_handle_iter(g, stack, out) ==
    IF stack = <<>> THEN [ok |-> TRUE, items |-> out]
    ELSE IF \/ ~is_valid_handle(g, stack[Len(stack)].node)
            \/ stack[Len(stack)].depth > Len(g.records)
    THEN [ok |-> FALSE, items |-> out]
    ELSE traverse_handle_iter(g,
             SubSeq(stack, 1, Len(stack) - 1)
                \o pushed(borrow(g, stack[Len(stack)].node).children,
                          stack[Len(stack)].depth),
             Append(out, [node |-> stack[Len(stack)].node,
                          children |-> borrow(g, stack[Len(stack)].node).children]))

\* The in-place copy in progress is the record st: the graph, the map, the
\* handle of the first copy made and the handle of the current parent's copy.
\* "Copy parent first": add_node gave r for the copy of parent
copy_parent(st, r, parent) ==
    [g |-> r.g, map |-> map_insert(st.map, parent, r.handle),
     handle |-> IF is_none(st.handle) THEN r.handle ELSE st.handle,
     parent_copy |-> r.handle]

\* an accepted child: add_node gave r for its copy, which is linked to the
\* parent's copy
copy_child(st, r, child) ==
    [st EXCEPT !.g = link_nodes(r.g, r.handle, st.parent_copy),
               !.map = map_insert(@, child, r.handle)]

\* the "Copy children and link to new parent" loop of copy_node_inplace
RECURSIVE copy_inplace_children(_, _, _)
copy_inplace_children(st, cs, filter) ==
    IF ~st.g.ok \/ cs = <<>> THEN st
    ELSE IF ~is_valid_handle(st.g, Head(cs)) THEN [st EXCEPT !.g = Panic(@)]
    ELSE IF Head(cs) \in filter
    THEN copy_inplace_children(
             copy_child(st, add_node(st.g, raw_copy(borrow(st.g, Head(cs)))), Head(cs)),
             Tail(cs), filter)
    ELSE copy_inplace_children(st, Tail(cs), filter)

\* the loop over to_copy of copy_node_inplace
RECURSIVE copy_inplace_loop(_, _, _)
copy_inplace_loop(st, to_copy, filter) ==
    IF ~st.g.ok \/ to_copy = <<>> THEN st
    ELSE IF ~is_valid_handle(st.g, Head(to_copy).node)
    THEN [st EXCEPT !.g = Panic(@), !.handle = NONE]
    ELSE copy_inplace_loop(
             copy_inplace_children(
                 copy_parent(st, add_node(st.g, raw_copy(borrow(st.g, Head(to_copy).node))),
                             Head(to_copy).node),
                 Head(to_copy).children, filter),
             Tail(to_copy), filter)

\* "remap_handles(&old_new_mapping, self)" on the result st of the loop
copy_inplace_remapped(st) ==
    [g |-> remap_handles(st.map, st.g), map |-> st.map, handle |-> st.handle]

\* copy_node_inplace once to_copy is collected
copy_collected(g, to_copy, filter) ==
    IF ~to_copy.ok THEN [g |-> Panic(g), map |-> {}, handle |-> NONE]
    ELSE copy_inplace_remapped(
             copy_inplace_loop([g |-> g, map |-> {}, handle |-> NONE, parent_copy |-> NONE],
                               to_copy.items, filter))

\* Graph::copy_node_inplace
copy_node_inplace(g, node_handle, filter) ==
    copy_collected(g, traverse_handle_iter(g, <<[node |-> node_handle, depth |-> 1]>>, <<>>),
                   filter)

\* ------------------------------------------------------------------ actions
GraphVars == <<records, free_stack, root, collider_map, bodies, colliders, joints,
               body_data, next_native>>

Commit(g) ==
    /\ records' = g.records
    /\ free_stack' = g.free_stack
    /\ root' = g.root
    /\ collider_map' = g.collider_map
    /\ bodies' = g.bodies
    /\ colliders' = g.colliders
    /\ joints' = g.joints
    /\ body_data' = g.body_data
    /\ next_native' = g.next_native

NativeIds(g) == g.bodies \cup ColliderIds(g) \cup JointIds(g)

\* The record of a call: its arguments and result, the handles it released and
\* the native entities it removed (read off the graph before and after), and for
\* the sub-graph operations the graph as it was before the extraction.
Call(op, a, b, cs, ret) ==
    [op |-> op, a |-> a, b |-> b, cs |-> cs, ret |-> ret, res |-> "ok",
     freed |-> {}, gone |-> {}, snap |-> <<>>, imm |-> FALSE, log |-> <<>>,
     map |-> {}, dest |-> <<>>, filter |-> {}]

\* A call that returns leaves the graph g; a call that panics ends the program.
Outcome(g, call, d, t, s) ==
    IF g.ok /\ g.next_native <= MaxNative + 1
    THEN /\ Commit(g)
         /\ last' = [call EXCEPT !.freed = call.freed \cup (AliveHandles(G) \ AliveHandles(g)),
                                 !.gone = NativeIds(G) \ NativeIds(g),
                                 !.log = g.log]
         /\ dead' = d /\ UNCHANGED SoundVars /\ tickets' = t /\ subgraphs' = s
         /\ calls' = calls + 1
    ELSE /\ ~g.ok
         /\ last' = [call EXCEPT !.res = "panic"]
         /\ calls' = calls + 1
         /\ UNCHANGED <<GraphVars, SoundVars, dead, tickets, subgraphs>>

Running == last.res # "panic" /\ calls < MaxCalls

Freed(g) == AliveHandles(G) \ AliveHandles(g)
Released(S) == dead \cup S

\* Sequences of at most MaxCarried handles of S.
CarriedSeqs(S) == UNION {[1..n -> S] : n \in 0..MaxCarried}

Init ==
    /\ records = GraphNew.records
    /\ free_stack = GraphNew.free_stack
    /\ root = GraphNew.root
    /\ collider_map = GraphNew.collider_map
    /\ bodies = GraphNew.bodies
    /\ colliders = GraphNew.colliders
    /\ joints = GraphNew.joints
    /\ body_data = GraphNew.body_data
    /\ next_native = GraphNew.next_native
    /\ tickets = {} /\ subgraphs = {}
    /\ dead = {} /\ NoSound
    /\ calls = 0
    /\ last = Call("new", NONE, NONE, <<>>, GraphNew.root)

\* What the builder of a node sets besides its kind, lifetime and position.
Plain == [scale |-> 1, visibility |-> TRUE, lin_vel |-> 0, prop |-> NONE]
Authored(n, x) ==
    [n EXCEPT !.scale = x.scale, !.visibility = x.visibility, !.lin_vel = x.lin_vel,
              !.prop = x.prop]

\* add_node(node): the node's kind and lifetime (a pair of variants), its
\* position, its joint bodies and the rest of what its builder set (extras)
\* are inputs; cs are the children it carries.
AddNodeWith(variants, positions, C, extras) ==
    /\ Running /\ CanSpawn(G)
    /\ \E v \in variants, pos \in positions, cs \in CarriedSeqs(C), x \in extras :
         \E b1, b2 \in IF v[1] = "Joint"
                       THEN {NONE} \cup {h \in AliveHandles(G) : borrow(G, h).kind = "RigidBody"}
                       ELSE {NONE} :
            \E r \in {add_node(G, Authored(NewNode(v[1], cs, v[2], pos, b1, b2), x))} :
                Outcome(r.g, Call("add_node", NONE, NONE, cs, r.handle),
                        dead, tickets, subgraphs)

AddNode(variants, positions, C) == AddNodeWith(variants, positions, C, {Plain})

LinkNodes(child, parent) ==
    /\ Running
    /\ Outcome(link_nodes(G, child, parent), Call("link_nodes", child, parent, <<>>, NONE),
               dead, tickets, subgraphs)

UnlinkNode(h) ==
    /\ Running
    /\ Outcome(unlink_node(G, h), Call("unlink_node", h, NONE, <<>>, NONE),
               dead, tickets, subgraphs)

RemoveNode(h) ==
    /\ Running
    /\ \E g \in {remove_node(G, h)} :
           Outcome(g, Call("remove_node", h, NONE, <<>>, NONE),
                   Released(Freed(g)), tickets, subgraphs)

\* What the caller holds: a ticket with its node, and the handle the node had
\* when it was taken (kept to compare with what put_back returns).
Held == Cardinality(tickets) + Cardinality(subgraphs)

TakeReserve(h) ==
    /\ Running /\ Held < MaxHeld
    /\ \E t \in {take_reserve(G, h)} :
           Outcome(t.g, Call("take_reserve", h, NONE, <<>>, NONE), dead,
                   IF t.g.ok
                   THEN tickets \cup {[ticket |-> t.ticket, node |-> t.node[1], origin |-> h]}
                   ELSE tickets,
                   subgraphs)

PutBack ==
    /\ Running
    /\ \E t \in tickets :
         \E r \in {put_back(G, t.ticket, t.node)} :
             Outcome(r.g, Call("put_back", t.origin, NONE, <<>>, r.handle),
                     dead, tickets \ {t}, subgraphs)

ForgetTicket ==
    /\ Running
    /\ \E t \in tickets :
         Outcome(forget_ticket(G, t.ticket),
                 [Call("forget_ticket", t.origin, NONE, <<>>, NONE)
                    EXCEPT !.freed = {t.origin}],
                 Released({t.origin}), tickets \ {t}, subgraphs)

\* The tickets of a SubGraph, root first.
SubGraphTickets(sg) ==
    {sg.root.ticket} \cup {sg.descendants[i].ticket : i \in 1..Len(sg.descendants)}

TakeReserveSubGraph(h) ==
    /\ Running /\ Held < MaxHeld
    /\ \E t \in {take_reserve_sub_graph(G, h)} :
           Outcome(t.g, [Call("take_reserve_sub_graph", h, NONE, <<>>, NONE)
                           EXCEPT !.snap = <<G>>],
                   dead, tickets,
                   IF t.g.ok
                   THEN subgraphs \cup {[sub_graph |-> t.sub_graph[1], origin |-> h,
                                         origins |-> AliveHandles(G) \ AliveHandles(t.g)]}
                   ELSE subgraphs)

PutSubGraphBack ==
    /\ Running
    /\ \E s \in subgraphs :
         \E r \in {put_sub_graph_back(G, s.sub_graph)},
            imm \in {last.op = "take_reserve_sub_graph" /\ last.a = s.origin} :
             Outcome(r.g, [Call("put_sub_graph_back", s.origin, NONE, <<>>, r.handle)
                             EXCEPT !.snap = IF imm THEN last.snap ELSE <<>>, !.imm = imm],
                     dead, tickets, subgraphs \ {s})

ForgetSubGraph ==
    /\ Running
    /\ \E s \in subgraphs :
         Outcome(forget_sub_graph(G, s.sub_graph),
                 [Call("forget_sub_graph", s.origin, NONE, <<>>, NONE)
                    EXCEPT !.freed = s.origins],
                 Released(s.origins), tickets, subgraphs \ {s})

Update ==
    /\ Running
    /\ \E g \in {update(G, 1)} :
          Outcome(g, Call("update", NONE, NONE, <<>>, NONE), Released(Freed(g)),
                  tickets, subgraphs)

\* update_hierarchical_data()
UpdateHierarchicalData ==
    /\ Running
    /\ Outcome(update_hierarchical_data(G),
               Call("update_hierarchical_data", NONE, NONE, <<>>, NONE),
               dead, tickets, subgraphs)

\* graph[h].local_transform_mut() with set_position and set_scale
SetLocalTransform(h, pos, scale) ==
    /\ Running
    /\ Outcome(IF is_valid_handle(G, h)
               THEN set_node(G, h, set_local(set_position(local_transform_mut(borrow(G, h)),
                                                          pos),
                                             "scale", scale))
               ELSE Panic(G),
               [Call("set_local_transform", h, NONE, <<>>, NONE) EXCEPT !.log = <<pos, scale>>],
               dead, tickets, subgraphs)

\* graph[h].set_visibility(v)
SetVisibility(h, v) ==
    /\ Running
    /\ Outcome(IF is_valid_handle(G, h)
               THEN set_node(G, h, [borrow(G, h) EXCEPT !.visibility = v])
               ELSE Panic(G),
               Call("set_visibility", h, NONE, <<>>, NONE),
               dead, tickets, subgraphs)

\* graph[h].as_rigid_body_mut().local_transform_mut().set_position(pos): the
\* caller moves a rigid body node, which marks its transform as modified
SetBodyPosition(h, pos) ==
    /\ Running
    /\ Outcome(IF is_valid_handle(G, h)
               THEN set_node(G, h, set_position(local_transform_mut(borrow(G, h)), pos))
               ELSE Panic(G),
               Call("set_body_position", h, NONE, <<>>, NONE),
               dead, tickets, subgraphs)

\* graph[h].as_rigid_body_mut().set_lin_vel(v)
SetLinVel(h, v) ==
    /\ Running
    /\ Outcome(IF is_valid_handle(G, h)
               THEN set_node(G, h, [borrow(G, h) EXCEPT !.lin_vel = v,
                                                       !.changes = @ \cup {"LIN_VEL"}])
               ELSE Panic(G),
               Call("set_lin_vel", h, NONE, <<>>, NONE),
               dead, tickets, subgraphs)

\* graph[h].as_rigid_body_mut().set_ang_vel(v)
SetAngVel(h, v) ==
    /\ Running
    /\ Outcome(IF is_valid_handle(G, h)
               THEN set_node(G, h, [borrow(G, h) EXCEPT !.properties["ANG_VEL"] = v,
                                                       !.changes = @ \cup {"ANG_VEL"}])
               ELSE Panic(G),
               Call("set_ang_vel", h, NONE, <<>>, NONE),
               dead, tickets, subgraphs)

\* Handles a caller that keeps the documented preconditions may move or remove:
\* alive and not the root; and the parents it may link a child under: alive and
\* not the child or one of its descendants.
Movable == AliveHandles(G) \ {root}
ParentsFor(child) == AliveHandles(G) \ Subtree(G, child)

\* Nodes given to add_node: every kind without a lifetime, and base nodes with one.
Variants == {<<k, NoLifetime>> : k \in Kinds} \cup {<<"Base", lt>> : lt \in Lifetimes}

\* The whole structural interface, called within its documented preconditions.
Next ==
    \/ AddNode(Variants, {0}, Movable)
    \/ \E c \in Movable : \E p \in ParentsFor(c) : LinkNodes(c, p)
    \/ \E h \in Movable : UnlinkNode(h)
    \/ \E h \in Movable : RemoveNode(h)
    \/ \E h \in Movable : TakeReserve(h)
    \/ PutBack
    \/ ForgetTicket
    \/ \E h \in Movable : TakeReserveSubGraph(h)
    \/ PutSubGraphBack
    \/ ForgetSubGraph
    \/ Update

Spec == Init /\ [][Next]_vars

\* The four editing operations alone, called with any handle the arena has
\* issued (stale ones, the root and a node's own descendants included).
NextEdit ==
    \/ \E c, p \in IssuedHandles(G) : LinkNodes(c, p)
    \/ AddNode({<<"Base", NoLifetime>>}, Positions, IssuedHandles(G))
    \/ \E h \in IssuedHandles(G) : UnlinkNode(h)
    \/ \E h \in IssuedHandles(G) : RemoveNode(h)

SpecEdit == Init /\ [][NextEdit]_vars

\* Base nodes with any local transform and visibility, re-linked and edited,
\* and the propagation of transforms and visibility.
HierExtras == {[Plain EXCEPT !.scale = sc, !.visibility = v] : sc \in Scales, v \in BOOLEAN}

NextHier ==
    /\ calls < MaxHierCalls
    /\ \/ AddNodeWith({<<"Base", NoLifetime>>}, Positions, Movable, HierExtras)
       \/ \E c \in Movable : \E p \in ParentsFor(c) : LinkNodes(c, p)
       \/ \E h \in AliveHandles(G), pos \in Positions, sc \in Scales :
             SetLocalTransform(h, pos, sc)
       \/ \E h \in AliveHandles(G), v \in BOOLEAN : SetVisibility(h, v)
       \/ UpdateHierarchicalData

SpecHier == Init /\ [][NextHier]_vars

\* Rigid bodies at rest or moving, moved and pushed by the caller through the
\* setters, base nodes with a lifetime, and update.
Velocities == {0, 1}
UpdateExtras == {[Plain EXCEPT !.lin_vel = v] : v \in Velocities}
RigidBodies == {h \in AliveHandles(G) : borrow(G, h).kind = "RigidBody"}

NextUpdate ==
    /\ calls < MaxUpdateCalls
    /\ \/ AddNodeWith({<<"RigidBody", NoLifetime>>}, Positions, Movable, UpdateExtras)
       \/ AddNodeWith({<<"Base", lt>> : lt \in Lifetimes}, {0}, Movable, {Plain})
       \/ \E h \in RigidBodies, pos \in Positions : SetLocalTransform(h, pos, 1)
       \/ \E h \in RigidBodies, pos \in Positions : SetBodyPosition(h, pos)
       \/ \E h \in RigidBodies, v \in Velocities : SetLinVel(h, v)
       \/ \E h \in RigidBodies, v \in Velocities : SetAngVel(h, v)
       \/ Update

SpecUpdate == Init /\ [][NextUpdate]_vars

\* ===================================================================== claims
children(g, h) == borrow(g, h).children
parent(g, h) == borrow(g, h).parent

\* The graph is a single tree rooted at root: the root is alive and has no
\* parent, every other alive node has an alive parent whose children list holds
\* it exactly once, no other children list holds it, children lists hold alive
\* handles only, and every alive node is reachable from the root.
IsTree(g) ==
    /\ is_valid_handle(g, g.root)
    /\ parent(g, g.root) = NONE
    /\ \A h \in AliveHandles(g) :
         /\ Range(children(g, h)) \subseteq AliveHandles(g) \ {g.root}
         /\ h # g.root =>
              /\ is_valid_handle(g, parent(g, h))
              /\ Count(children(g, parent(g, h)), h) = 1
              /\ \A q \in AliveHandles(g) \ {parent(g, h)} : h \notin Range(children(g, q))
    /\ Subtree(g, g.root) = AliveHandles(g)

\* The documented preconditions of a call, read on the graph before the call:
\* handles are alive, the node moved or removed is not the root, and a node is
\* never linked under itself or one of its descendants.
WithinPreconditions(g, call) ==
    CASE call.op = "add_node" -> Range(call.cs) \subseteq AliveHandles(g) \ {g.root}
      [] call.op = "link_nodes" ->
             /\ call.a \in AliveHandles(g) \ {g.root}
             /\ call.b \in AliveHandles(g) \ Subtree(g, call.a)
      [] call.op \in {"unlink_node", "remove_node"} -> call.a \in AliveHandles(g) \ {g.root}
      [] OTHER -> TRUE

\* C1 as stated: after any sequence of add_node / link_nodes / unlink_node /
\* remove_node calls the graph is a single tree rooted at root.
C1_TreeAfterAnySequence == IsTree(G)

\* C1 amended: a call of add_node / link_nodes / unlink_node / remove_node made
\* within the preconditions on a graph that is a single tree rooted at root
\* leaves a single tree rooted at root.
C1_TreePreserved ==
    [][(IsTree(G) /\ last'.res = "ok" /\ WithinPreconditions(G, last')) => IsTree(G')]_vars

\* C1 witness: a node was re-linked under a non-root parent and the graph of
\* three nodes is a tree.
C1_Witness ==
    /\ last.op = "link_nodes" /\ last.res = "ok"
    /\ last.b # root /\ IsTree(G) /\ alive_count(G) = 3
    /\ parent(G, last.a) = last.b

\* C5: after link_nodes(child, parent) the child's parent is parent, the child
\* is the last element of parent's children, occurs there exactly once and
\* occurs in no other node's children list.
C5_LinkDetachesFirst ==
    (last.op = "link_nodes" /\ last.res = "ok") =>
        /\ parent(G, last.a) = last.b
        /\ children(G, last.b) # <<>>
        /\ children(G, last.b)[Len(children(G, last.b))] = last.a
        /\ Count(children(G, last.b), last.a) = 1
        /\ \A q \in AliveHandles(G) \ {last.b} : last.a \notin Range(children(G, q))

\* C5 witness: a child that add_node had put under root was linked under
\* another parent, which already had a child.
C5_Witness ==
    /\ last.op = "link_nodes" /\ last.res = "ok"
    /\ last.b # root /\ last.a # last.b
    /\ last.a \notin Range(children(G, root))
    /\ Len(children(G, last.b)) = 1

\* C6: the graph made by Graph::new has exactly one alive node, the root; the
\* root handle is not NONE and is valid, the root has no parent and no children.
C6_FreshGraph ==
    last.op = "new" =>
        /\ alive_count(G) = 1
        /\ root # NONE
        /\ is_valid_handle(G, root)
        /\ AliveHandles(G) = {root}
        /\ parent(G, root) = NONE
        /\ children(G, root) = <<>>

\* C6 witness: the state right after construction.
C6_Witness == last.op = "new" /\ node_count(G) = 1 /\ try_get(G, root) # <<>>

\* C7: add_node adds exactly one alive node, returns a valid handle that was
\* not alive before, puts the new node under root and re-links every carried
\* child under the new node, all of them reachable from root.
C7_AddNode ==
    [][(last'.op = "add_node" /\ last'.res = "ok") =>
          /\ alive_count(G') = alive_count(G) + 1
          /\ is_valid_handle(G', last'.ret)
          /\ last'.ret \notin AliveHandles(G)
          /\ AliveHandles(G') = AliveHandles(G) \cup {last'.ret}
          /\ parent(G', last'.ret) = root'
          /\ Count(children(G', root'), last'.ret) = 1
          /\ \A c \in Range(last'.cs) :
                /\ parent(G', c) = last'.ret
                /\ Count(children(G', last'.ret), c) = 1
                /\ c \in Subtree(G', root')
          /\ Range(children(G', last'.ret)) = Range(last'.cs)]_vars

\* C7 witness: the third add_node on a graph carried a child that is now under
\* the new node.
C7_Witness ==
    /\ last.op = "add_node" /\ last.res = "ok"
    /\ last.cs # <<>>
    /\ parent(G, last.cs[1]) = last.ret
    /\ parent(G, last.ret) = root
    /\ alive_count(G) = 3

\* C2 as stated: in every state reached through the structural operations, the
\* reservation operations and update, every alive node except root is
\* reachable from root, every parent handle and every child handle of an alive
\* node denotes an alive node, and no node is in two children lists.
C2_EveryAliveNodeReachable ==
    /\ AliveHandles(G) \subseteq Subtree(G, root)
    /\ \A h \in AliveHandles(G) :
         /\ is_some(parent(G, h)) => is_valid_handle(G, parent(G, h))
         /\ Range(children(G, h)) \subseteq AliveHandles(G)
         /\ Cardinality({q \in AliveHandles(G) : h \in Range(children(G, q))}) <= 1

\* C3: a handle that remove_node has freed (called directly, or by update when
\* a lifetime expires) is never valid again and try_get on it returns None; the
\* handle add_node returns is never such a handle, and when it has the index of
\* one its generation is strictly greater.
C3_StaleHandleNeverAliases ==
    /\ \A h \in dead : ~is_valid_handle(G, h) /\ try_get(G, h) = <<>>
    /\ (last.op = "add_node" /\ last.res = "ok") =>
          /\ last.ret \notin dead
          /\ \A h \in dead : h.index = last.ret.index => last.ret.generation > h.generation

\* C3 witness: the third call, an add_node, reused the record of the node that
\* the second call removed; the old handle of that record stays invalid.
C3_Witness ==
    /\ calls = 3 /\ last.op = "add_node" /\ last.res = "ok"
    /\ is_valid_handle(G, last.ret)
    /\ \E h \in dead : h.index = last.ret.index /\ try_get(G, h) = <<>>

\* C4: remove_node(h) makes h and every descendant of h invalid, leaves every
\* other node alive, takes h out of its former parent's children list, and
\* removes from the simulation the native entity of every removed RigidBody,
\* Collider and Joint node and the collider_map entry of every removed Collider.
C4_RemoveNode ==
    [][(last'.op = "remove_node" /\ last'.res = "ok") =>
          LET h == last'.a
              S == Subtree(G, h)
          IN  /\ \A x \in S : ~is_valid_handle(G', x) /\ try_get(G', x) = <<>>
              /\ AliveHandles(G') = AliveHandles(G) \ S
              /\ is_some(parent(G, h)) => h \notin Range(children(G', parent(G, h)))
              /\ \A x \in S :
                    LET n == borrow(G, x)
                    IN  /\ n.kind = "RigidBody" => n.native \notin bodies'
                        /\ n.kind = "Collider" =>
                              /\ n.native \notin ColliderIds(G')
                              /\ \A e \in collider_map' : e[1] # n.native
                        /\ n.kind = "Joint" => n.native \notin JointIds(G')]_vars

\* C4 witness: remove_node freed a node with a descendant and took two native
\* entities, a rigid body and its collider, out of the simulation.
C4_Witness ==
    /\ last.op = "remove_node" /\ last.res = "ok"
    /\ Cardinality(last.freed) = 2
    /\ Cardinality(last.gone) = 2
    /\ collider_map = {} /\ bodies = {} /\ colliders = {}

\* The handles of the nodes held outside the graph, and their record indices.
HeldOrigins == {t.origin : t \in tickets} \cup UNION {s.origins : s \in subgraphs}
HeldIndices == {h.index : h \in HeldOrigins}

\* C8 as stated: take_reserve_sub_graph(r) followed immediately by
\* put_sub_graph_back returns r and leaves every handle of r and its
\* descendants valid and denoting the same node data as before the extraction
\* (links inside the subtree included), with root as r's parent and r exactly
\* once in root's children list.
C8_RoundTripSameData ==
    (last.op = "put_sub_graph_back" /\ last.res = "ok" /\ last.imm) =>
        LET g0 == last.snap[1]
            r == last.a
        IN  /\ last.ret = r
            /\ \A h \in Subtree(g0, r) :
                  /\ is_valid_handle(G, h)
                  /\ [borrow(G, h) EXCEPT !.parent = NONE]
                        = [borrow(g0, h) EXCEPT !.parent = NONE]
                  /\ h # r => parent(G, h) = parent(g0, h)
            /\ parent(G, r) = root
            /\ Count(children(G, root), r) = 1

\* C8 amended: the same, for an alive r other than the graph root, except that
\* when r is a Collider node with a native collider, that collider and its
\* collider_map entry are removed from the simulation and r's native handle is
\* reset to invalid; every descendant keeps its data, its native handle included.
C8_RoundTrip ==
    (last.op = "put_sub_graph_back" /\ last.res = "ok" /\ last.imm) =>
        LET g0 == last.snap[1]
            r == last.a
            n0 == borrow(g0, r)
            detached == n0.kind = "Collider" /\ n0.native \in ColliderIds(g0)
        IN  /\ last.ret = r /\ r # root /\ root = g0.root
            /\ AliveHandles(G) = AliveHandles(g0)
            /\ \A h \in Subtree(g0, r) \ {r} :
                  is_valid_handle(G, h) /\ borrow(G, h) = borrow(g0, h)
            /\ is_valid_handle(G, r)
            /\ borrow(G, r) = [n0 EXCEPT !.parent = root,
                                         !.native = IF detached THEN INVALID ELSE @]
            /\ Count(children(G, root), r) = 1
            /\ children(G, root)[Len(children(G, root))] = r
            /\ detached =>
                  /\ n0.native \notin ColliderIds(G)
                  /\ \A e \in collider_map : e[1] # n0.native
            /\ ~detached =>
                  /\ colliders = g0.colliders /\ collider_map = g0.collider_map
            /\ bodies = g0.bodies /\ joints = g0.joints

\* C8 witness: a sub-graph of a node and its child was taken and put back at
\* once; the child is valid and still under the node, the node is under root.
C8_Witness ==
    /\ last.op = "put_sub_graph_back" /\ last.res = "ok" /\ last.imm
    /\ Cardinality(Subtree(last.snap[1], last.a)) = 2
    /\ Len(children(G, last.a)) = 1
    /\ is_valid_handle(G, children(G, last.a)[1])
    /\ parent(G, last.a) = root

\* C9: while a node or a sub-graph is held, its records hold no value, keep
\* their generation and are not on the free stack, and try_get on its handles
\* returns None; add_node never returns a handle with the index of a held
\* record; put_back and put_sub_graph_back return the handle the node had and
\* make every handle of the nodes put back valid again.
C9_SlotsReserved ==
    [][last'.res = "ok" =>
          /\ \A h \in {t.origin : t \in tickets'}
                      \cup UNION {s.origins : s \in subgraphs'} :
                /\ try_get(G', h) = <<>>
                /\ records'[h.index + 1].payload = <<>>
                /\ records'[h.index + 1].generation = h.generation
                /\ h.index \notin Range(free_stack')
          /\ \A t \in tickets' : t.ticket = t.origin.index
          /\ last'.op = "add_node" => last'.ret.index \notin HeldIndices
          /\ last'.op = "put_back" =>
                \A t \in tickets \ tickets' :
                   /\ last'.ret = t.origin
                   /\ is_valid_handle(G', t.origin)
                   /\ borrow(G', t.origin) = [t.node EXCEPT !.parent = root']
          /\ last'.op = "put_sub_graph_back" =>
                \A s \in subgraphs \ subgraphs' :
                   /\ last'.ret = s.origin
                   /\ \A h \in s.origins : is_valid_handle(G', h)]_vars

\* C9 witness: while a node is held, add_node reused the record of a removed
\* node: the generation of the handle it returned is 2 and its index is not
\* the held one.
C9_Witness ==
    /\ last.op = "add_node" /\ last.res = "ok"
    /\ tickets # {}
    /\ last.ret.generation = 2
    /\ \A t \in tickets : t.ticket # last.ret.index /\ try_get(G, t.origin) = <<>>

\* C10: after forget_ticket and forget_sub_graph the handle of every forgotten
\* node is invalid and its record is on the free stack; a released handle is
\* never valid again; node_count counts neither released nor held nodes.
C10_ForgetInvalidates ==
    /\ (last.op \in {"forget_ticket", "forget_sub_graph"} /\ last.res = "ok") =>
          /\ last.freed # {}
          /\ \A h \in last.freed :
                /\ h \in dead
                /\ ~is_valid_handle(G, h)
                /\ Count(free_stack, h.index) = 1
          /\ last.freed \cap HeldOrigins = {}
    /\ \A h \in dead : h \notin AliveHandles(G) /\ h \notin HeldOrigins
    /\ node_count(G) = Cardinality(IssuedHandles(G) \ (dead \cup HeldOrigins))

\* C10 witness: forget_sub_graph forgot a node and its child; both records are
\* on the free stack and only the root is counted.
C10_Witness ==
    /\ last.op = "forget_sub_graph" /\ last.res = "ok"
    /\ Cardinality(last.freed) = 2
    /\ Len(free_stack) = 2
    /\ node_count(G) = 1

\* The ancestors of h: its parent, the parent's parent, and so on.
RECURSIVE Ancestors(_, _, _)
Ancestors(g, h, fuel) ==
    IF fuel = 0 \/ ~is_valid_handle(g, h) \/ is_none(parent(g, h)) THEN {}
    ELSE {parent(g, h)} \cup Ancestors(g, parent(g, h), fuel - 1)

\* C11: after update_hierarchical_data the global transform of every node
\* reachable from root is its parent's global transform times its own local
\* transform matrix, and the root's global transform is its local matrix.
C11_GlobalTransform ==
    (last.op = "update_hierarchical_data" /\ last.res = "ok") =>
        \A h \in Subtree(G, root) :
            borrow(G, h).global_transform
               = IF h = root THEN local_matrix(borrow(G, h))
                 ELSE Mul(borrow(G, parent(G, h)).global_transform,
                          local_matrix(borrow(G, h)))

\* C11 witness: after the propagation a node two levels below root has a
\* global transform that differs from its local matrix, from its parent's
\* global transform and from the product taken in the other order.
C11_Witness ==
    /\ last.op = "update_hierarchical_data" /\ last.res = "ok"
    /\ \E h \in AliveHandles(G) :
          /\ Cardinality(Ancestors(G, h, MaxSlots)) = 2
          /\ LET n == borrow(G, h)
                 gp == borrow(G, n.parent).global_transform
             IN  /\ n.global_transform = Mul(gp, local_matrix(n))
                 /\ n.global_transform # Mul(local_matrix(n), gp)
                 /\ n.global_transform # local_matrix(n)
                 /\ n.global_transform # gp

\* C12: after update_hierarchical_data the global visibility of every node
\* reachable from root is its parent's global visibility AND its own flag (the
\* root: its own flag), so a node is globally visible iff it and all of its
\* ancestors have their flag set.
C12_GlobalVisibility ==
    (last.op = "update_hierarchical_data" /\ last.res = "ok") =>
        \A h \in Subtree(G, root) :
            /\ borrow(G, h).global_visibility
                  = IF h = root THEN borrow(G, h).visibility
                    ELSE borrow(G, parent(G, h)).global_visibility /\ borrow(G, h).visibility
            /\ borrow(G, h).global_visibility
                  = \A a \in {h} \cup Ancestors(G, h, MaxSlots) : borrow(G, a).visibility

\* C12 witness: after the propagation a node whose own flag is set is not
\* globally visible, because the flag of its grandparent, the root, is not.
C12_Witness ==
    /\ last.op = "update_hierarchical_data" /\ last.res = "ok"
    /\ ~borrow(G, root).visibility
    /\ \E h \in AliveHandles(G) :
          /\ Cardinality(Ancestors(G, h, MaxSlots)) = 2
          /\ borrow(G, h).visibility
          /\ borrow(G, parent(G, h)).visibility
          /\ ~borrow(G, h).global_visibility

\* The sub-steps of update in the order the spec gives them.
PhaseRank(phase) ==
    CASE phase = "sync" -> 1 [] phase = "step" -> 2 [] phase = "hierarchy" -> 3
      [] phase = "node" -> 4 [] OTHER -> 0

\* What the simulation holds for a rigid body node n after the sync pass of an
\* update that starts in graph g: the node's value where the node has no body
\* yet or its dirty flag is set, else the body's value.
PushedPos(g, n) ==
    IF n.native \in g.bodies /\ ~n.transform_modified THEN body(g, n.native).pos ELSE n.pos
PushedVel(g, n) ==
    IF n.native \in g.bodies /\ "LIN_VEL" \notin n.changes
    THEN body(g, n.native).lin_vel ELSE n.lin_vel
PushedRot(g, n) ==
    IF n.native \in g.bodies /\ ~n.transform_modified
    THEN body(g, n.native).rot ELSE n.rest["rotation"]
PushedAngVel(g, n) ==
    IF n.native \in g.bodies /\ "ANG_VEL" \notin n.changes
    THEN body(g, n.native).properties["ANG_VEL"] ELSE n.properties["ANG_VEL"]
Stepped(pos, vel) == pos + vel

\* C13: one update call runs the sync pass over every node, then one step of
\* the simulation, then the propagation over every node reachable from root,
\* then the per-node pass, and nothing of a later sub-step before the earlier
\* one has finished: the body of a rigid body node is stepped from the state
\* the sync pass pushed, and the global transform is computed from the local
\* transform the node had before the per-node pass overwrote it.
C13_UpdateOrder ==
    [][(last'.op = "update" /\ last'.res = "ok") =>
          LET log == last'.log
          IN  /\ \A i, j \in 1..Len(log) : i < j => PhaseRank(log[i]) <= PhaseRank(log[j])
              /\ \A i \in 1..Len(log) : PhaseRank(log[i]) # 0
              /\ Count(log, "step") = 1
              /\ Count(log, "sync") = alive_count(G)
              /\ Count(log, "hierarchy") = Cardinality(Subtree(G, root))
              /\ Count(log, "node") \in alive_count(G')..alive_count(G)
              /\ \A h \in RigidBodies \cap AliveHandles(G') :
                    LET n == borrow(G, h)
                        m == borrow(G', h)
                    IN  /\ m.native \in bodies'
                        /\ body(G', m.native).pos = Stepped(PushedPos(G, n), PushedVel(G, n))
                        /\ m.global_transform
                              = Mul(borrow(G', n.parent).global_transform, local_matrix(n))]_vars

\* C13 witness: an update pushed the position the caller gave a rigid body
\* node, stepped the body from there and left a global transform computed from
\* the position before the per-node pass.
C13_Witness ==
    /\ last.op = "update" /\ last.res = "ok"
    /\ Count(last.log, "sync") = 2 /\ Count(last.log, "node") = 2
    /\ \E h \in RigidBodies :
          LET n == borrow(G, h)
          IN  /\ n.native \in bodies
              /\ n.lin_vel = 1
              /\ n.pos = body(G, n.native).pos
              /\ n.global_transform # local_matrix(n)
              /\ calls = 4

\* C18: after update every alive RigidBody node with a body holds the body's
\* position, rotation, linear velocity and angular velocity after the step;
\* whatever the node held before is overwritten, unless the sync pass of the
\* same call pushed it to the body.
C18_Resync ==
    [][(last'.op = "update" /\ last'.res = "ok") =>
          /\ \A h \in AliveHandles(G') :
                LET m == borrow(G', h)
                IN  (m.kind = "RigidBody" /\ m.native \in bodies') =>
                       /\ m.pos = body(G', m.native).pos
                       /\ local(m, "rotation") = body(G', m.native).rot
                       /\ m.lin_vel = body(G', m.native).lin_vel
                       /\ m.properties["ANG_VEL"] = body(G', m.native).properties["ANG_VEL"]
          /\ \A h \in RigidBodies \cap AliveHandles(G') :
                LET n == borrow(G, h)
                    m == borrow(G', h)
                IN  /\ m.pos = Stepped(PushedPos(G, n), PushedVel(G, n))
                    /\ local(m, "rotation") = Stepped(PushedRot(G, n), PushedAngVel(G, n))
                    /\ m.lin_vel = PushedVel(G, n)
                    /\ m.properties["ANG_VEL"] = PushedAngVel(G, n)]_vars

\* C18 witness: after the fourth call a rigid body node holds the position 2
\* of its body, which only the step produces (callers write 0 or 1), the
\* angular velocity 1 that the caller set and the sync pass pushed to the
\* body, and the rotation of the body, which the step has turned.
C18_Witness ==
    /\ last.op = "update" /\ last.res = "ok" /\ calls = 4
    /\ \E h \in RigidBodies :
          LET n == borrow(G, h)
          IN  /\ n.native \in bodies
              /\ n.pos = body(G, n.native).pos
              /\ n.pos = 2
              /\ local(n, "rotation") = body(G, n.native).rot
              /\ local(n, "rotation") > 0
              /\ n.properties["ANG_VEL"] = 1
              /\ body(G, n.native).properties["ANG_VEL"] = 1

\* C16: the sync pass creates the native joint of a Joint node only when both
\* of its rigid body nodes have a live body: no call inserts a joint whose
\* body id is invalid or absent from the simulation, whatever the order of the
\* nodes in the arena.
C16_JointBodiesLive ==
    [][\A j \in joints' :
          j.id \notin {k.id : k \in joints} =>
             /\ j.body1 # INVALID /\ j.body2 # INVALID
             /\ j.body1 \in bodies' /\ j.body2 \in bodies']_vars

\* The alive nodes of a kind whose native is the entity id.
NodesOfNative(kind, id) ==
    {h \in AliveHandles(G) : borrow(G, h).kind = kind /\ borrow(G, h).native = id}

\* C19: in every state each native entity is the native of exactly one alive
\* node of the matching variant, and collider_map holds exactly one entry per
\* native collider, whose value is that alive Collider node.
C19_NativesMapped ==
    last.res # "panic" =>
       /\ \A id \in bodies : Cardinality(NodesOfNative("RigidBody", id)) = 1
       /\ \A id \in ColliderIds(G) :
             /\ Cardinality(NodesOfNative("Collider", id)) = 1
             /\ \E h \in NodesOfNative("Collider", id) :
                   {e \in collider_map : e[1] = id} = {<<id, h>>}
       /\ \A id \in JointIds(G) : Cardinality(NodesOfNative("Joint", id)) = 1
       /\ \A e \in collider_map : e[1] \in ColliderIds(G)

\* A graph as it is after load: no node has a native and the simulation is empty.
NoNatives ==
    /\ bodies = {} /\ colliders = {} /\ joints = {} /\ collider_map = {}
    /\ \A h \in AliveHandles(G) : borrow(G, h).native = INVALID

\* C20: one update of a graph without natives gives a body to every RigidBody
\* node, a collider to every Collider node whose parent is a RigidBody node and
\* a joint to every Joint node whose two bodies are RigidBody nodes, whatever
\* the order of the nodes in the arena.
C20_FirstSyncRebuilds ==
    [][(NoNatives /\ last'.op = "update" /\ last'.res = "ok") =>
          \A h \in AliveHandles(G') :
             LET n == borrow(G', h)
                 p == try_get(G', n.parent)
                 b1 == try_get(G', n.body1)
                 b2 == try_get(G', n.body2)
             IN  /\ n.kind = "RigidBody" => n.native \in bodies'
                 /\ (n.kind = "Collider" /\ p # <<>> /\ p[1].kind = "RigidBody")
                       => n.native \in ColliderIds(G')
                 /\ (n.kind = "Joint" /\ b1 # <<>> /\ b2 # <<>>
                       /\ b1[1].kind = "RigidBody" /\ b2[1].kind = "RigidBody")
                       => n.native \in JointIds(G')]_vars

\* ------------------------------------------------------- joint scenario
\* A fresh graph to which rigid bodies, colliders and joints are added, the
\* colliders handed to their body at construction or linked afterwards, with
\* update called at any moment.
KindHandles(k) == {h \in AliveHandles(G) : borrow(G, h).kind = k}
LooseColliders == {h \in KindHandles("Collider") : borrow(G, h).parent = root}

JointRunning == last.res # "panic" /\ calls < MaxJointCalls

JointOutcome(g, call) ==
    IF g.ok
    THEN /\ Commit(g)
         /\ last' = [call EXCEPT !.log = g.log]
         /\ calls' = calls + 1
         /\ UNCHANGED <<SoundVars, dead, tickets, subgraphs>>
    ELSE /\ last' = [call EXCEPT !.res = "panic"]
         /\ calls' = calls + 1
         /\ UNCHANGED <<GraphVars, SoundVars, dead, tickets, subgraphs>>

JointAddBody ==
    /\ JointRunning /\ Len(records) <= MaxJointNodes
    /\ \E cs \in CarriedSeqs(LooseColliders) :
          LET r == add_node(G, NewNode("RigidBody", cs, NoLifetime, 0, NONE, NONE))
          IN  JointOutcome(r.g, Call("add_node", NONE, NONE, cs, r.handle))

JointAddCollider ==
    /\ JointRunning /\ Len(records) <= MaxJointNodes
    /\ LET r == add_node(G, NewNode("Collider", <<>>, NoLifetime, 0, NONE, NONE))
       IN  JointOutcome(r.g, Call("add_node", NONE, NONE, <<>>, r.handle))

JointAddJoint ==
    /\ JointRunning /\ Len(records) <= MaxJointNodes
    /\ \E b1, b2 \in KindHandles("RigidBody") :
          /\ b1 # b2
          /\ LET r == add_node(G, NewNode("Joint", <<>>, NoLifetime, 0, b1, b2))
             IN  JointOutcome(r.g, Call("add_node", b1, b2, <<>>, r.handle))

JointLink ==
    /\ JointRunning
    /\ \E c \in LooseColliders, p \in KindHandles("RigidBody") :
          JointOutcome(link_nodes(G, c, p), Call("link_nodes", c, p, <<>>, NONE))

JointUpdate ==
    /\ JointRunning
    /\ JointOutcome(update(G, 1), Call("update", NONE, NONE, <<>>, NONE))

NextJoint ==
    \/ JointAddBody
    \/ JointAddCollider
    \/ JointAddJoint
    \/ JointLink
    \/ JointUpdate

SpecJoint == Init /\ [][NextJoint]_vars

\* The rigid body node h has a collider among its children.
HasCollider(g, h) ==
    \E i \in 1..Len(borrow(g, h).children) :
       /\ is_valid_handle(g, borrow(g, h).children[i])
       /\ borrow(g, borrow(g, h).children[i]).kind = "Collider"

\* The joints of the scenario: Joint nodes whose bodies are two rigid body
\* nodes with a collider each.
ScenarioJoints ==
    {j \in KindHandles("Joint") :
        /\ borrow(G, j).body1 # borrow(G, j).body2
        /\ \A b \in {borrow(G, j).body1, borrow(G, j).body2} :
              /\ is_valid_handle(G, b)
              /\ borrow(G, b).kind = "RigidBody"
              /\ HasCollider(G, b)}

\* C17: with two rigid body nodes, a collider under each, and a joint node
\* naming the two, all added before any update has created an entity: the
\* joint has no native before the update and has one after it, attached to
\* the bodies of its two nodes, which were created earlier in the same call.
C17_JointAfterOneUpdate ==
    [][(next_native = 1 /\ last'.op = "update") =>
          /\ last'.res = "ok"
          /\ \A j \in ScenarioJoints :
                LET before == borrow(G, j)
                    after == borrow(G', j)
                    A == borrow(G', before.body1)
                    B == borrow(G', before.body2)
                IN  /\ before.native = INVALID /\ joints = {} /\ bodies = {}
                    /\ A.native \in bodies' /\ B.native \in bodies'
                    /\ \E e \in joints' :
                          e.id = after.native /\ e.body1 = A.native /\ e.body2 = B.native
                    /\ A.native < after.native /\ B.native < after.native]_vars

\* C17 witness: the first update has just given a native to the joint of the
\* scenario, after the bodies of its two nodes (the colliders, built before
\* their bodies, are still without one).
C17_Witness ==
    /\ last.op = "update" /\ last.res = "ok"
    /\ Count(last.log, "step") = 1
    /\ \E j \in ScenarioJoints :
          /\ borrow(G, j).native \in JointIds(G)
          /\ borrow(G, borrow(G, j).body1).native \in bodies
          /\ borrow(G, borrow(G, j).body2).native \in bodies
          /\ colliders = {}

\* ------------------------------------------------------------ deep copies
\* graph[h].properties: the caller stores the handle t in a node-handle property
SetProperty(h, t) ==
    /\ Running
    /\ Outcome(IF is_valid_handle(G, h)
               THEN set_node(G, h, [borrow(G, h) EXCEPT !.prop = t])
               ELSE Panic(G),
               Call("set_property", h, t, <<>>, NONE),
               dead, tickets, subgraphs)

\* The graphs a copy is made into: a new one, and one that already has a node.
DestGraphs ==
    {GraphNew, add_node(GraphNew, NewNode("Base", <<>>, NoLifetime, 0, NONE, NONE)).g}

\* copy_node(h, dest, filter) on the graph; the graph itself is only read.
CopyNode(h, dest_graph, filter) ==
    /\ Running
    /\ \E r \in {copy_node(G, h, dest_graph, filter)} :
           Outcome(IF r.dest.ok THEN G ELSE Panic(G),
                   [Call("copy_node", h, NONE, <<>>, r.handle)
                      EXCEPT !.map = r.map, !.dest = <<r.dest>>, !.filter = filter,
                             !.snap = <<dest_graph>>],
                   dead, tickets, subgraphs)

\* copy_node_inplace(h, filter)
CopyNodeInplace(h, filter) ==
    /\ Running /\ Len(records) <= MaxCopySlots
    /\ \E r \in {copy_node_inplace(G, h, filter)} :
           Outcome(r.g,
                   [Call("copy_node_inplace", h, NONE, <<>>, r.handle)
                      EXCEPT !.map = r.map, !.filter = filter],
                   dead, tickets, subgraphs)

\* The handles the nodes of the copy scenario are built with: those of the
\* first two nodes added to a new graph.
CopyTargets == {MkHandle(1, 1), MkHandle(2, 1)}

\* The nodes given to add_node before a copy, each as its builder made it: a
\* base node, alone or with a LOD group of one level listing both targets; a
\* rigid body; a joint whose first body is a target and whose second body and
\* node-handle property are the other target or none; a mesh with a target as
\* its bone; a collider whose shape is a Trimesh with both targets as sources,
\* a Heightfield with a target as its geometry source, or a shape without
\* handles.
Built(kind) == NewNode(kind, <<>>, NoLifetime, 0, NONE, NONE)
CopyNodes ==
    {Built("Base"), Built("RigidBody"),
     [Built("Base") EXCEPT !.lod_group = <<<<<<MkHandle(1, 1), MkHandle(2, 1)>>>>>>]}
    \cup {n \in {[Built("Joint") EXCEPT !.body1 = t, !.body2 = u, !.prop = u] :
                    t \in CopyTargets, u \in {NONE} \cup CopyTargets} :
             n.body2 # n.body1}
    \cup {[Built("Mesh") EXCEPT !.bones = <<t>>] : t \in CopyTargets}
    \cup {[Built("Collider") EXCEPT !.geometry = x] :
             x \in {NoSources, Trimesh(<<MkHandle(2, 1), MkHandle(1, 1)>>),
                    Heightfield(MkHandle(1, 1))}}

\* add_node(node) with a node of the copy scenario carrying the children cs
AddBuilt(nodes, C) ==
    /\ Running /\ Len(records) < MaxCopySlots
    /\ \E n \in nodes, cs \in CarriedSeqs(C) :
          \E r \in {add_node(G, [n EXCEPT !.children = cs])} :
              Outcome(r.g, Call("add_node", NONE, NONE, cs, r.handle),
                      dead, tickets, subgraphs)

\* The filters: the one that accepts every node, and those that reject one.
Filters == {AliveHandles(G)} \cup {AliveHandles(G) \ {x} : x \in Movable}

NextCopy ==
    /\ calls < MaxCopyCalls
    /\ \/ AddBuilt(CopyNodes, Movable)
       \/ \E h \in AliveHandles(G), t \in Movable : SetProperty(h, t)
       \/ \E h \in AliveHandles(G), d \in DestGraphs, f \in Filters : CopyNode(h, d, f)
       \/ \E h \in AliveHandles(G), f \in Filters : CopyNodeInplace(h, f)

SpecCopy == Init /\ [][NextCopy]_vars

\* The nodes a filtered deep copy of h is to copy: h, and every descendant the
\* filter accepts whose ancestors below h were accepted.
RECURSIVE AcceptedFrom(_, _, _)
AcceptedFrom(g, S, filter) ==
    LET T == S \cup {c \in AliveHandles(g) \cap filter :
                        \E q \in S : c \in Range(borrow(g, q).children)}
    IN  IF T = S THEN S ELSE AcceptedFrom(g, T, filter)

\* The children of a node that are among the copied nodes, in their order.
AcceptedChildren(cs, S) == SelectSeq(cs, LAMBDA c : c \in S)

\* The copy e[2] in graph d of the original e[1] of graph g, where S is the set
\* of copied originals, m the map and h the root of the copy: same data, its
\* handles into S (joint bodies, node-handle property, mesh bones, geometry
\* sources of a collider's shape) replaced by the copies and the others kept,
\* the objects of its LOD levels that are in S replaced by the copies and the
\* others left out, linked as the original was.
IsCopyOf(g, d, e, S, m, h) ==
    /\ is_valid_handle(d, e[2])
    /\ LET o == borrow(g, e[1])
           c == borrow(d, e[2])
       IN  /\ c.kind = o.kind /\ c.pos = o.pos /\ c.lifetime = o.lifetime
           /\ c.native = INVALID
           /\ \A x \in {<<o.body1, c.body1>>, <<o.body2, c.body2>>, <<o.prop, c.prop>>} :
                 IF x[1] \in S /\ (o.kind = "Joint" \/ x[1] = o.prop)
                 THEN <<x[1], x[2]>> \in m
                 ELSE x[2] = x[1] \/ <<x[1], x[2]>> \in m
           /\ Len(c.bones) = Len(o.bones)
           /\ \A i \in 1..Len(o.bones) :
                 IF o.kind = "Mesh" /\ o.bones[i] \in S
                 THEN <<o.bones[i], c.bones[i]>> \in m
                 ELSE c.bones[i] = o.bones[i]
           /\ c.geometry.shape = o.geometry.shape
           /\ Len(c.geometry.sources) = Len(o.geometry.sources)
           /\ \A i \in 1..Len(o.geometry.sources) :
                 IF o.kind = "Collider" /\ o.geometry.sources[i] \in S
                 THEN <<o.geometry.sources[i], c.geometry.sources[i]>> \in m
                 ELSE c.geometry.sources[i] = o.geometry.sources[i]
           /\ Len(c.lod_group) = Len(o.lod_group)
           /\ \A k \in 1..Len(o.lod_group) :
                 /\ Len(c.lod_group[k]) = Len(o.lod_group[k])
                 /\ \A l \in 1..Len(o.lod_group[k]) :
                       LET kept == AcceptedChildren(o.lod_group[k][l], S)
                       IN  /\ Len(c.lod_group[k][l]) = Len(kept)
                           /\ \A i \in 1..Len(kept) :
                                 <<kept[i], c.lod_group[k][l][i]>> \in m
           /\ c.parent = IF e[1] = h THEN d.root ELSE map_get(m, o.parent)[1]
           /\ LET cs == AcceptedChildren(o.children, S)
              IN  /\ Len(c.children) = Len(cs)
                  /\ \A i \in 1..Len(cs) : <<cs[i], c.children[i]>> \in m

\* C14: after copy_node with a filter that accepts everything, the map has
\* exactly one entry per node of the source subtree, every copy is linked as
\* its original was, every mesh bone handle, joint body handle, collider
\* geometry-source handle and node-handle property of a copy that pointed into
\* the subtree points at the copy of its target, and the source graph is
\* unchanged.
C14_CopyRemaps ==
    [][(last'.op = "copy_node" /\ last'.res = "ok"
          /\ Subtree(G, last'.a) \subseteq last'.filter) =>
          LET h == last'.a
              m == last'.map
              d == last'.dest[1]
              S == Subtree(G, h)
          IN  /\ map_keys(m) = S
              /\ Cardinality(m) = Cardinality(S)
              /\ Cardinality(map_values(m)) = Cardinality(S)
              /\ map_values(m) \cap AliveHandles(last'.snap[1]) = {}
              /\ AliveHandles(d) = AliveHandles(last'.snap[1]) \cup map_values(m)
              /\ \A e \in m : IsCopyOf(G, d, e, S, m, h)
              /\ last'.ret = map_get(m, h)[1]
              /\ UNCHANGED GraphVars]_vars

\* C14 witness: a joint, a mesh and a collider were copied together; the body
\* of the joint, its property, the bone of the mesh and a geometry source of
\* the collider are copied nodes, and each of these handles of the copies
\* differs from the original's.
C14_Witness ==
    /\ last.op = "copy_node" /\ last.res = "ok"
    /\ Subtree(G, last.a) \subseteq last.filter
    /\ \E j, k, c \in last.map :
          LET oj == borrow(G, j[1])
              cj == borrow(last.dest[1], j[2])
              ok == borrow(G, k[1])
              ck == borrow(last.dest[1], k[2])
              oc == borrow(G, c[1])
              cc == borrow(last.dest[1], c[2])
          IN  /\ oj.kind = "Joint"
              /\ oj.body1 \in map_keys(last.map) /\ cj.body1 # oj.body1
              /\ oj.prop \in map_keys(last.map) /\ cj.prop # oj.prop
              /\ ok.kind = "Mesh"
              /\ ok.bones[1] \in map_keys(last.map) /\ ck.bones[1] # ok.bones[1]
              /\ oc.kind = "Collider"
              /\ \E i \in 1..Len(oc.geometry.sources) :
                    /\ oc.geometry.sources[i] \in map_keys(last.map)
                    /\ cc.geometry.sources[i] # oc.geometry.sources[i]

\* C15: copy_node_inplace does what copy_node does: it adds exactly one new
\* node per copied original (the root and every accepted descendant whose
\* ancestors below the root were accepted), links the copies as the originals
\* are, the root's copy under the graph root, and returns the map from each
\* copied original to its copy.
C15_InplaceAsCopyNode ==
    [][(last'.op = "copy_node_inplace" /\ last'.res = "ok") =>
          LET h == last'.a
              m == last'.map
              S == AcceptedFrom(G, {h}, last'.filter)
          IN  /\ alive_count(G') = alive_count(G) + Cardinality(S)
              /\ map_keys(m) = S
              /\ Cardinality(m) = Cardinality(S)
              /\ map_values(m) \cap AliveHandles(G) = {}
              /\ \A e \in m : IsCopyOf(G, G', e, S, m, h)
              /\ last'.ret = map_get(m, h)[1]]_vars

\* ------------------------------------------------------------------- C21
\* Base nodes at any position and scale, linked under one another and unlinked.
UnlinkExtras == {[Plain EXCEPT !.scale = sc] : sc \in Scales}

NextUnlink ==
    /\ calls < MaxUnlinkCalls
    /\ \/ AddNodeWith({<<"Base", NoLifetime>>}, Positions, Movable, UnlinkExtras)
       \/ \E c \in Movable : \E p \in ParentsFor(c) : LinkNodes(c, p)
       \/ \E h \in Movable : UnlinkNode(h)

SpecUnlink == Init /\ [][NextUnlink]_vars

\* A node without its links and its local position.
Unplaced(n) == [n EXCEPT !.parent = NONE, !.children = <<>>, !.pos = 0]

\* A node without its parent, its local position and what the write of a
\* position leaves on a node: transform_modified and the mark on the position.
Unflagged(n) ==
    [n EXCEPT !.parent = NONE, !.pos = 0, !.transform_modified = TRUE,
              !.custom = @ \cup {"position"}]

\* C21: unlink_node(h) on an alive node h other than the root returns, leaves
\* h with parent root, exactly once in root's children and in no other
\* children list (its former parent's included), resets h's local position to
\* the origin through local_transform_mut().set_position (transform_modified
\* is set, the position counts as set by hand) and keeps h's children, its
\* other local-transform components and the rest of h; every other node keeps
\* its parent, its data and its children apart from h.
C21_UnlinkNode ==
    [][last'.op = "unlink_node" =>
         LET h == last'.a
         IN  /\ last'.res = "ok"
             /\ AliveHandles(G') = AliveHandles(G)
             /\ borrow(G', h).parent = root'
             /\ Count(borrow(G', root').children, h) = 1
             /\ \A q \in AliveHandles(G') \ {root'} : h \notin Range(borrow(G', q).children)
             /\ borrow(G', h).pos = 0
             /\ borrow(G', h).children = borrow(G, h).children
             /\ borrow(G', h).transform_modified
             /\ borrow(G', h).custom = borrow(G, h).custom \cup {"position"}
             /\ Unflagged(borrow(G', h)) = Unflagged(borrow(G, h))
             /\ \A q \in AliveHandles(G) \ {h} :
                   /\ borrow(G', q).parent = borrow(G, q).parent
                   /\ Unplaced(borrow(G', q)) = Unplaced(borrow(G, q))
                   /\ SelectSeq(borrow(G', q).children, LAMBDA x : x # h)
                         = SelectSeq(borrow(G, q).children, LAMBDA x : x # h)
    ]_vars

\* C21 witness: the unlinked node is scaled and has a child of its own, which
\* it keeps; it is the only child of root and lies at the origin.
C21_Witness ==
    /\ last.op = "unlink_node" /\ last.res = "ok"
    /\ borrow(G, last.a).scale = 2
    /\ borrow(G, last.a).children # <<>>
    /\ borrow(G, last.a).pos = 0
    /\ borrow(G, root).children = <<last.a>>
    /\ \E c \in AliveHandles(G) : borrow(G, c).parent = last.a /\ borrow(G, c).pos = 1

\* ------------------------------------------------------------------- C22
\* Graph::default: no record, no root.
GraphDefault ==
    [records |-> <<>>, free_stack |-> <<>>, root |-> NONE, collider_map |-> {},
     bodies |-> {}, colliders |-> {}, joints |-> {}, body_data |-> {},
     next_native |-> 1, log |-> <<>>, ok |-> TRUE]

\* What a visitor holds for a graph: whether it has the region of the graph's
\* name, and in it the field "Root" (<<>> or <<handle>>) and the field "Pool"
\* (<<>> or <<[records, free_stack]>>).
saved(g) ==
    [region |-> TRUE, root |-> <<g.root>>,
     pool |-> <<[records |-> g.records, free_stack |-> g.free_stack]>>]

\* The visitors a graph is visited with: an empty graph, a new graph and a
\* graph with a node under its root, each whole, without its "Pool" field,
\* without its "Root" field and without its region.
SavedGraphs ==
    LET whole == {saved(GraphDefault), saved(GraphNew),
                  saved(add_node(GraphNew,
                                 NewNode("Base", <<>>, NoLifetime, 0, NONE, NONE)).g)}
    IN  whole \cup {[d EXCEPT !.pool = <<>>] : d \in whole}
              \cup {[d EXCEPT !.root = <<>>] : d \in whole}
              \cup {[region |-> FALSE, root |-> <<>>, pool |-> <<>>]}

\* Visitor::enter_region(name): a reading visitor needs the region, a writing
\* one must not have it yet
enter_region(data, reading) == data.region = reading

\* "self.root.visit("Root", visitor)?; self.pool.visit("Pool", visitor)?" of
\* a reading visitor: a missing field is an Err, after the fields before it
\* were read
visit_fields(g, data) ==
    IF data.root = <<>> THEN [g |-> g, result |-> "Err"]
    ELSE IF data.pool = <<>>
    THEN [g |-> [g EXCEPT !.root = data.root[1]], result |-> "Err"]
    ELSE [g |-> [g EXCEPT !.root = data.root[1], !.records = data.pool[1].records,
                          !.free_stack = data.pool[1].free_stack],
          result |-> "Ok"]

\* visit that loads before it looks at the pool
visit_check_after_load(g, data, reading) ==
    IF ~enter_region(data, reading) THEN [g |-> g, result |-> "Err"]
    ELSE IF ~reading THEN [g |-> g, result |-> "Ok"]
    ELSE IF Len(g.records) # 0
    THEN [g |-> Panic(visit_fields(g, data).g), result |-> "panic"]
    ELSE visit_fields(g, data)

\* <Graph as Visit>::visit: [g, result]. An Err of enter_region is returned
\* first; then in reading mode a pool with any record is a panic, else the
\* root and the pool take the visitor's values; in writing mode the graph is
\* only read.
visit(g, data, reading) ==
    IF ~enter_region(data, reading) THEN [g |-> g, result |-> "Err"]
    ELSE IF reading /\ Len(g.records) # 0 THEN [g |-> Panic(g), result |-> "panic"]
    ELSE IF reading THEN visit_fields(g, data)
    ELSE [g |-> g, result |-> "Ok"]

Visit(data, reading) ==
    /\ last.res # "panic"
    /\ Outcome(visit(G, data, reading).g,
               [Call("visit", NONE, NONE, <<>>, visit(G, data, reading).result)
                   EXCEPT !.snap = <<data>>, !.imm = reading],
               dead, tickets, subgraphs)

InitVisit ==
    /\ \E g \in {GraphDefault, GraphNew} :
          /\ records = g.records /\ free_stack = g.free_stack /\ root = g.root
          /\ collider_map = g.collider_map /\ bodies = g.bodies
          /\ colliders = g.colliders /\ joints = g.joints
          /\ body_data = g.body_data /\ next_native = g.next_native
          /\ last = Call("new", NONE, NONE, <<>>, g.root)
    /\ tickets = {} /\ subgraphs = {} /\ dead = {} /\ NoSound /\ calls = 0

NextVisit ==
    /\ calls < MaxVisitCalls
    /\ \/ AddNode({<<"Base", lt>> : lt \in Lifetimes}, Positions, Movable)
       \/ \E h \in Movable : RemoveNode(h)
       \/ \E data \in SavedGraphs, reading \in BOOLEAN : Visit(data, reading)

SpecVisit == InitVisit /\ [][NextVisit]_vars

\* C22 as stated: a visit in reading mode panics exactly when the arena holds
\* a node.
C22_VisitNonEmptyArena ==
    [][(last'.op = "visit" /\ last'.imm) =>
          (last'.res = "panic" <=> alive_count(G) # 0)]_vars

\* C22: a visit in reading mode of a visitor that has the graph's region
\* panics exactly when the pool has a record, free or not; the panic comes
\* before the root handle and the pool are touched, and a visit that returns
\* Ok has given them the visitor's values. Without the region the visit
\* returns Err, does not panic and leaves the graph as it was.
C22_VisitNoRecords ==
    [][(last'.op = "visit" /\ last'.imm) =>
          LET data == last'.snap[1]
              r == visit(G, data, TRUE)
          IN  /\ last'.res = "panic" <=> (data.region /\ Len(records) # 0)
              /\ ~r.g.ok =>
                    r.g.root = root /\ r.g.records = records /\ r.g.free_stack = free_stack
              /\ ~data.region =>
                    /\ last'.ret = "Err"
                    /\ root' = root /\ records' = records /\ free_stack' = free_stack
              /\ (last'.res = "ok" /\ last'.ret = "Ok") =>
                    /\ root' = data.root[1] /\ records' = data.pool[1].records
                    /\ free_stack' = data.pool[1].free_stack
    ]_vars

\* C22 witness: a visit in reading mode panicked on a pool whose only record
\* is free, after a node was added to a default graph and removed.
C22_Witness ==
    /\ last.op = "visit" /\ last.imm /\ last.res = "panic"
    /\ Len(records) = 1 /\ alive_count(G) = 0
    /\ last.snap[1].pool # <<>> /\ last.snap[1].pool[1].records # <<>>

\* ------------------------------------------------------------------- C27
\* Base nodes with and without a lifetime of one or more steps, linked under
\* one another, and update.
LifeVariants ==
    {<<"Base", NoLifetime>>} \cup {<<"Base", <<t>>>> : t \in 1..MaxLifeSpan}

NextLife ==
    /\ calls < MaxLifeCalls
    /\ \/ AddNodeWith(LifeVariants, {0}, Movable, {Plain})
       \/ \E c \in Movable : \E p \in ParentsFor(c) : LinkNodes(c, p)
       \/ Update

SpecLife == Init /\ [][NextLife]_vars

\* The alive nodes of g whose lifetime is used up by a step of dt.
Expired(g, dt) ==
    {h \in AliveHandles(g) :
        borrow(g, h).lifetime # <<>> /\ borrow(g, h).lifetime[1] - dt <= 0}

\* C27: update(dt) returns; the nodes it removes are exactly the nodes whose
\* lifetime minus dt is <= 0 and all their descendants; every node still alive
\* has its lifetime lowered by dt if it has one, and it is > 0.
C27_Lifetime ==
    [][last'.op = "update" =>
          /\ last'.res = "ok"
          /\ AliveHandles(G')
                = AliveHandles(G) \ UNION {Subtree(G, h) : h \in Expired(G, 1)}
          /\ last'.freed = UNION {Subtree(G, h) : h \in Expired(G, 1)}
          /\ \A h \in AliveHandles(G') :
                /\ borrow(G', h).lifetime
                      = IF borrow(G, h).lifetime = <<>> THEN <<>>
                        ELSE <<borrow(G, h).lifetime[1] - 1>>
                /\ borrow(G', h).lifetime # <<>> => borrow(G', h).lifetime[1] > 0
    ]_vars

\* C27 witness: one update removed a node whose lifetime ran out and left
\* another node alive with its lifetime lowered from 2 to 1.
C27_Witness ==
    /\ last.op = "update" /\ last.res = "ok"
    /\ last.freed # {}
    /\ \E h \in AliveHandles(G) : borrow(G, h).lifetime = <<1>>

\* ------------------------------------------------------------------- C28
\* Two handles of a request denote the same record.
overlaps(nodes) ==
    \E i, j \in 1..Len(nodes) : i < j /\ nodes[i].index = nodes[j].index

\* Pool::borrow_two_mut / borrow_three_mut / borrow_four_mut: the request is
\* rejected when two of its handles denote the same record, and each handle is
\* borrowed as by borrow_mut. The result is a tuple of references, so the only
\* way to reject is a panic. refs are the handles of the nodes lent out.
pool_borrow_many_mut(g, nodes) ==
    IF overlaps(nodes) \/ \E i \in 1..Len(nodes) : ~pool_is_valid_handle(g, nodes[i])
    THEN [g |-> Panic(g), refs |-> <<>>]
    ELSE [g |-> g, refs |-> nodes]

\* Graph::get_two_mut, Graph::get_three_mut, Graph::get_four_mut
get_two_mut(g, nodes) == pool_borrow_many_mut(g, nodes)
get_three_mut(g, nodes) == pool_borrow_many_mut(g, nodes)
get_four_mut(g, nodes) == pool_borrow_many_mut(g, nodes)

GetTwoMut(nodes) ==
    /\ last.res # "panic"
    /\ \E r \in {get_two_mut(G, nodes)} :
          Outcome(r.g, Call("get_two_mut", NONE, NONE, nodes, r.refs),
                  dead, tickets, subgraphs)

GetThreeMut(nodes) ==
    /\ last.res # "panic"
    /\ \E r \in {get_three_mut(G, nodes)} :
          Outcome(r.g, Call("get_three_mut", NONE, NONE, nodes, r.refs),
                  dead, tickets, subgraphs)

GetFourMut(nodes) ==
    /\ last.res # "panic"
    /\ \E r \in {get_four_mut(G, nodes)} :
          Outcome(r.g, Call("get_four_mut", NONE, NONE, nodes, r.refs),
                  dead, tickets, subgraphs)

\* The graph after n base nodes were added to a new graph.
RECURSIVE GraphWith(_)
GraphWith(n) ==
    IF n = 0 THEN GraphNew
    ELSE add_node(GraphWith(n - 1), NewNode("Base", <<>>, NoLifetime, 0, NONE, NONE)).g

InitBorrow ==
    /\ \E n \in 0..MaxBorrowNodes : \E g \in {GraphWith(n)} :
          /\ records = g.records /\ free_stack = g.free_stack /\ root = g.root
          /\ last = Call("new", NONE, NONE, <<>>, g.root)
    /\ collider_map = {} /\ bodies = {} /\ colliders = {} /\ joints = {}
    /\ body_data = {} /\ next_native = 1
    /\ tickets = {} /\ subgraphs = {} /\ dead = {} /\ NoSound /\ calls = 0

\* The borrows of two, three and four nodes, with any handles the arena has
\* issued: alive ones and those of removed nodes.
NextBorrow ==
    /\ calls < MaxBorrowCalls
    /\ \/ \E h \in Movable : RemoveNode(h)
       \/ \E a, b \in IssuedHandles(G) : GetTwoMut(<<a, b>>)
       \/ \E a, b, c \in IssuedHandles(G) : GetThreeMut(<<a, b, c>>)
       \/ \E a, b, c, d \in IssuedHandles(G) : GetFourMut(<<a, b, c, d>>)

SpecBorrow == InitBorrow /\ [][NextBorrow]_vars

BorrowOps == {"get_two_mut", "get_three_mut", "get_four_mut"}

\* C28: a request to get_two_mut, get_three_mut or get_four_mut that names a
\* record twice is rejected, by a panic of the two- and four-way variants and
\* by a returned error of the three-way variant; a call that returns lends out
\* the requested nodes, all alive and no two of them the same.
C28_OverlapRejected ==
    [][last'.op \in BorrowOps =>
          /\ overlaps(last'.cs) =>
                last'.res = (IF last'.op = "get_three_mut" THEN "err" ELSE "panic")
          /\ last'.res = "ok" =>
                /\ last'.ret = last'.cs
                /\ \A i \in 1..Len(last'.ret) : is_valid_handle(G, last'.ret[i])
                /\ \A i, j \in 1..Len(last'.ret) :
                      i # j => last'.ret[i] # last'.ret[j]
    ]_vars

\* C28, what the three variants have in common: a request that names a record
\* twice panics (the result type of each is a tuple of references, none has an
\* error to return), a call that returns lends out the requested nodes, all
\* alive and no two of them the same, and the graph is only read.
C28_OverlapPanics ==
    [][last'.op \in BorrowOps =>
          /\ overlaps(last'.cs) => last'.res = "panic"
          /\ last'.res = "ok" =>
                /\ last'.ret = last'.cs
                /\ \A i \in 1..Len(last'.ret) : is_valid_handle(G, last'.ret[i])
                /\ \A i, j \in 1..Len(last'.ret) :
                      i # j => last'.ret[i] # last'.ret[j]
          /\ UNCHANGED GraphVars
    ]_vars

\* C28 witness: get_three_mut panicked on a request of three alive handles,
\* two of them the same.
C28_Witness ==
    /\ last.op = "get_three_mut" /\ last.res = "panic"
    /\ \A i \in 1..3 : is_valid_handle(G, last.cs[i])
    /\ last.cs[1] = last.cs[3] /\ last.cs[1] # last.cs[2]

\* ------------------------------------------------------------------- C29
\* "copy.root = root" of clone, on the result r of copy_node
clone_rooted(r) == [copy |-> [r.dest EXCEPT !.root = r.handle], map |-> r.map]

\* clone that leaves the root of the copy as Graph::default made it
clone_root_unset(g, filter) ==
    [copy |-> copy_node(g, g.root, GraphDefault, filter).dest,
     map |-> copy_node(g, g.root, GraphDefault, filter).map]

\* Graph::clone: the copy and the old-to-new map
clone(g, filter) == clone_rooted(copy_node(g, g.root, GraphDefault, filter))

\* clone(filter); the graph itself is only read.
Clone(filter) ==
    /\ last.res # "panic"
    /\ \E r \in {clone(G, filter)} :
          Outcome(IF r.copy.ok THEN G ELSE Panic(G),
                  [Call("clone", NONE, NONE, <<>>, r.copy.root)
                     EXCEPT !.map = r.map, !.dest = <<r.copy>>, !.filter = filter],
                  dead, tickets, subgraphs)

\* Hierarchies of nodes with node-handle properties and joints, and their clone.
CopyExtras == {[Plain EXCEPT !.prop = t] : t \in {NONE} \cup Movable}
CopyVariants == {<<k, NoLifetime>> : k \in {"Base", "RigidBody", "Joint"}}
NextClone ==
    /\ calls < MaxCloneCalls
    /\ \/ AddNodeWith(CopyVariants, {0}, Movable, CopyExtras)
       \/ \E c \in Movable : \E p \in ParentsFor(c) : LinkNodes(c, p)
       \/ \E f \in Filters : Clone(f)

SpecClone == Init /\ [][NextClone]_vars

\* C29: clone with a filter that accepts every node returns; the source graph
\* is unchanged; the copy has as many alive nodes as the source; the map is a
\* bijection between the nodes reachable from the source's root and the alive
\* nodes of the copy; the copy's root is the image of the source's root and
\* has no parent; the children of the image of a node are the images of the
\* node's children, in the same order.
C29_CloneDeepCopy ==
    [][(last'.op = "clone" /\ last'.filter = AliveHandles(G)) =>
          LET d == last'.dest[1]
              m == last'.map
          IN  /\ last'.res = "ok"
              /\ UNCHANGED GraphVars
              /\ alive_count(d) = alive_count(G)
              /\ map_keys(m) = Subtree(G, root)
              /\ map_values(m) = AliveHandles(d)
              /\ Cardinality(m) = Cardinality(map_keys(m))
              /\ Cardinality(m) = Cardinality(map_values(m))
              /\ d.root = remapped(m, root) /\ d.root # NONE
              /\ last'.ret = d.root
              /\ borrow(d, d.root).parent = NONE
              /\ \A h \in Subtree(G, root) :
                    /\ Len(borrow(d, remapped(m, h)).children) = Len(borrow(G, h).children)
                    /\ \A i \in 1..Len(borrow(G, h).children) :
                          /\ borrow(d, remapped(m, h)).children[i]
                                = remapped(m, borrow(G, h).children[i])
                          /\ borrow(d, remapped(m, borrow(G, h).children[i])).parent
                                = remapped(m, h)
    ]_vars

\* C29 witness: the clone of a graph whose root has a child with a child of its
\* own, whose copies got handles other than the originals'.
C29_Witness ==
    /\ last.op = "clone" /\ last.res = "ok" /\ last.filter = AliveHandles(G)
    /\ alive_count(last.dest[1]) = 3
    /\ \E h \in Movable :
          /\ borrow(G, h).parent # root
          /\ remapped(last.map, h) # h

\* ------------------------------------------------------------------- C30
\* An intersection as cast_ray stores it: the collider's node and the time of
\* impact (normal, position and feature follow from the same hit).
Intersection(handle_map, hit) ==
    [collider |-> map_get(handle_map, hit.collider)[1], toi |-> hit.toi]

\* QueryResultsStorage::push: Vec always takes the intersection, ArrayVec only
\* below its capacity cap; the result tells whether it was taken.
push(query_buffer, intersection, cap) ==
    IF Len(query_buffer) < cap
    THEN [buffer |-> Append(query_buffer, intersection), accepted |-> TRUE]
    ELSE [buffer |-> query_buffer, accepted |-> FALSE]

\* the callback of intersections_with_ray, called on the hits in the order the
\* query finds them; a collider without an entry in handle_map is a panic; the
\* callback returns what push returns, and the query ends when that is false
RECURSIVE push_hits(_, _, _, _)
push_hits(st, handle_map, hits, cap) ==
    IF ~st.ok \/ hits = <<>> THEN st
    ELSE IF map_get(handle_map, Head(hits).collider) = <<>>
    THEN [st EXCEPT !.ok = FALSE]
    ELSE IF ~push(st.buffer, Intersection(handle_map, Head(hits)), cap).accepted
    THEN st
    ELSE push_hits([st EXCEPT !.buffer = push(@, Intersection(handle_map, Head(hits)), cap).buffer],
                   handle_map, Tail(hits), cap)

\* the comparison closure of cast_ray
cmp_toi(a, b) ==
    IF a.toi > b.toi THEN "Greater" ELSE IF a.toi < b.toi THEN "Less" ELSE "Equal"

\* slice::sort_by, a stable sort: x goes behind the last element that is not
\* greater than it
RECURSIVE insert_sorted(_, _)
insert_sorted(sorted, x) ==
    IF sorted = <<>> THEN <<x>>
    ELSE IF cmp_toi(sorted[Len(sorted)], x) = "Greater"
    THEN Append(insert_sorted(SubSeq(sorted, 1, Len(sorted) - 1), x), sorted[Len(sorted)])
    ELSE Append(sorted, x)

RECURSIVE sort_from(_, _)
sort_from(sorted, rest) ==
    IF rest = <<>> THEN sorted ELSE sort_from(insert_sorted(sorted, Head(rest)), Tail(rest))

\* a sort that leaves the storage as the query filled it
sort_intersections_by_nothing(query_buffer) == query_buffer

\* QueryResultsStorage::sort_intersections_by with the closure of cast_ray
sort_intersections_by(query_buffer) == sort_from(<<>>, query_buffer)

\* "if opts.sort_results { query_buffer.sort_intersections_by(..) }"
sorted_if(st, sort_results) ==
    IF st.ok /\ sort_results THEN [st EXCEPT !.buffer = sort_intersections_by(@)] ELSE st

\* PhysicsWorld::cast_ray: the storage is cleared, filled by the query and
\* sorted on request. hits is what intersections_with_ray reports for the ray.
cast_ray(handle_map, hits, sort_results, query_buffer, cap) ==
    sorted_if(push_hits([ok |-> TRUE, buffer |-> <<>>], handle_map, hits, cap), sort_results)

\* The scene: n colliders under one rigid body, after the two updates that
\* give all of them a native.
RECURSIVE Colliders(_)
Colliders(n) ==
    IF n = 0 THEN GraphNew
    ELSE add_node(Colliders(n - 1), NewNode("Collider", <<>>, NoLifetime, 0, NONE, NONE)).g

RayScene(n) ==
    update(update(add_node(Colliders(n),
                           NewNode("RigidBody", [i \in 1..n |-> MkHandle(i, 1)],
                                   NoLifetime, 0, NONE, NONE)).g, 1), 1)

\* What a ray may report: some of the native colliders, each once, in any
\* order, each with a time of impact.
HitSeqs(ids) ==
    {s \in UNION {[1..k -> [collider : ids, toi : 0..MaxToi]] :
                     k \in 0..Cardinality(ids)} :
        \A i, j \in 1..Len(s) : i # j => s[i].collider # s[j].collider}

\* What the caller's storage holds before the first call: nothing, or the
\* result of an earlier cast.
Leftovers == {<<>>, <<[collider |-> MkHandle(0, 1), toi |-> 0]>>}

\* The arguments of the next cast: hits stands for the ray, cap for the kind
\* of storage the caller passes.
Ray(hits, sort_results, query_buffer, cap) ==
    [Call("ray", NONE, NONE, hits, <<>>)
        EXCEPT !.imm = sort_results, !.snap = query_buffer, !.filter = {cap}]

InitRay ==
    /\ \E n \in 1..MaxRayColliders : \E g \in {RayScene(n)} :
          /\ records = g.records /\ free_stack = g.free_stack /\ root = g.root
          /\ collider_map = g.collider_map /\ bodies = g.bodies
          /\ colliders = g.colliders /\ joints = g.joints
          /\ body_data = g.body_data /\ next_native = g.next_native
          /\ \E hits \in HitSeqs(ColliderIds(g)), sort_results \in BOOLEAN,
                query_buffer \in Leftovers, cap \in 1..MaxRayColliders :
                last = Ray(hits, sort_results, query_buffer, cap)
    /\ tickets = {} /\ subgraphs = {} /\ dead = {} /\ NoSound /\ calls = 0

\* Graph::cast_ray(opts, query_buffer); the graph is only read.
CastRay(hits, sort_results, query_buffer, cap) ==
    /\ \E r \in {cast_ray(collider_map, hits, sort_results, query_buffer, cap)} :
          /\ last' = [Call("cast_ray", NONE, NONE, hits, r.buffer)
                        EXCEPT !.res = IF r.ok THEN "ok" ELSE "panic",
                               !.imm = sort_results, !.snap = query_buffer,
                               !.filter = {cap}]
          /\ calls' = calls + 1
          /\ UNCHANGED <<GraphVars, SoundVars, dead, tickets, subgraphs>>

\* The first cast takes the prepared arguments; a later one casts the same ray
\* into the storage the last call filled, with the other sort option.
NextRay ==
    /\ calls < MaxRayCalls
    /\ last.res # "panic"
    /\ \E cap \in last.filter :
          \/ /\ last.op = "ray"
             /\ CastRay(last.cs, last.imm, last.snap, cap)
          \/ /\ last.op = "cast_ray"
             /\ CastRay(last.cs, ~last.imm, last.ret, cap)

SpecRay == InitRay /\ [][NextRay]_vars

\* C30: cast_ray returns; the storage holds only intersections of this call,
\* each a reported hit with its collider's node, at most one per hit; with
\* sort_results each element's toi is <= the next one's; and the call without
\* sort_results on the same ray stores the same intersections.
C30_CastRaySorted ==
    [][last'.op = "cast_ray" =>
          LET out == last'.ret
              hits == last'.cs
              cap == CHOOSE c \in last'.filter : TRUE
              other == cast_ray(collider_map, hits, ~last'.imm, last'.snap, cap).buffer
          IN  /\ last'.res = "ok"
              /\ \A i \in 1..Len(out) :
                    \E k \in 1..Len(hits) : out[i] = Intersection(collider_map, hits[k])
              /\ \A i, j \in 1..Len(out) : i # j => out[i] # out[j]
              /\ Len(out) = IF Len(hits) < cap THEN Len(hits) ELSE cap
              /\ last'.imm => \A i \in 1..(Len(out) - 1) : out[i].toi <= out[i + 1].toi
              /\ Range(other) = Range(out) /\ Len(other) = Len(out)
    ]_vars

\* C30 witness: a sorted cast into a storage that held an older intersection;
\* the query reported three hits with the farthest first and the nearest last.
C30_Witness ==
    /\ last.op = "cast_ray" /\ last.res = "ok" /\ last.imm
    /\ last.snap # <<>>
    /\ Len(last.cs) = 3 /\ Len(last.ret) = 3
    /\ last.cs[1].toi = 2 /\ last.cs[2].toi = 1 /\ last.cs[3].toi = 0
    /\ last.ret[1].toi = 0 /\ last.ret[3].toi = 2

\* ------------------------------------------------------------- C23..C26
\* A node carries name (an integer; 0 for a node nobody named), resource (<<>>
\* or <<r>>, r the model it was instantiated from: its node mapping and its
\* scene graph), original_handle_in_resource, is_resource_instance_root, the
\* set custom of local-transform components the user set by hand, and bones,
\* the bone list of a Mesh's surface.
ResourceStates == {"Ok", "Pending", "LoadError"}
NodeMappings == {"UseNames", "UseHandles"}
PendingPanic == "resources must be awaited before doing resolve!"

\* Pool::pair_iter: the alive handles in index order
pair_iter(g) ==
    SelectSeq([i \in 1..Len(g.records) |-> handle_from_index(g, i - 1)],
              LAMBDA h : is_some(h))

\* Graph::find and Graph::find_copy_of search a hierarchy by recursion: the
\* node at root_node ("&self.pool[root_node]", a panic when the handle is not
\* valid), then the hierarchies of its children from first to last, up to the
\* first that gives a handle. matches is the set of handles whose node
\* satisfies the test. The result is [ok, h]: h is the handle returned, NONE
\* when there is none; ok is FALSE when the search does not return: a panic,
\* or a recursion without end. A path of more nodes than the pool has records
\* goes twice through one node, and the search that has passed a node once
\* without a match passes it again and again, until the stack overflows;
\* depth counts the nodes the path may still take.
RECURSIVE find(_, _, _, _)
RECURSIVE find_children(_, _, _, _)
find(g, root_node, matches, depth) ==
    IF depth = 0 \/ ~is_valid_handle(g, root_node) THEN [ok |-> FALSE, h |-> NONE]
    ELSE IF root_node \in matches THEN [ok |-> TRUE, h |-> root_node]
    ELSE find_children(g, borrow(g, root_node).children, matches, depth - 1)

\* "for child in root.children()" of find and find_copy_of
find_children(g, kids, matches, depth) ==
    IF kids = <<>> THEN [ok |-> TRUE, h |-> NONE]
    ELSE LET result == find(g, Head(kids), matches, depth)
         IN  IF ~result.ok \/ is_some(result.h) THEN result
             ELSE find_children(g, Tail(kids), matches, depth)

\* Graph::find_by_name
find_by_name(g, root_node, name) ==
    find(g, root_node, {h \in AliveHandles(g) : borrow(g, h).name = name},
         Len(g.records) + 1)

\* Graph::find_copy_of
find_copy_of(g, root_handle, node_handle) ==
    find(g, root_handle,
         {h \in AliveHandles(g) : borrow(g, h).original_handle_in_resource = node_handle},
         Len(g.records) + 1)

\* Graph::find_model_root; "&self.pool[model_root_handle]" panics on a handle
\* of the chain of parents that is not valid, and the loop does not end on a
\* chain of parents that comes back to a node: fuel is one more than the
\* records of the pool, and a chain that uses it up has passed a node twice.
\* ok is FALSE when the call does not return.
RECURSIVE find_model_root(_, _, _)
find_model_root(g, from, fuel) ==
    IF is_none(from) THEN [ok |-> TRUE, h |-> from]
    ELSE IF fuel = 0 \/ ~is_valid_handle(g, from) THEN [ok |-> FALSE, h |-> from]
    ELSE IF is_none(borrow(g, from).parent) \/ borrow(g, from).is_resource_instance_root
    THEN [ok |-> TRUE, h |-> from]
    ELSE find_model_root(g, borrow(g, from).parent, fuel - 1)

\* the "let resource_node = match data.mapping" of the first pass: <<handle>>
\* of the template node that stands for node, or <<>>
resource_node_of(r, node) ==
    IF r.mapping = "UseNames"
    THEN SelectSeq(pair_iter(r.graph), LAMBDA h : borrow(r.graph, h).name = node.name)
    ELSE IF is_valid_handle(r.graph, node.original_handle_in_resource)
    THEN <<node.original_handle_in_resource>>
    ELSE <<>>

\* a resync that overwrites hand-set values too
synced_overwriting(node, resource_node, component) ==
    set_local(node, component, local(resource_node, component))

\* "if !local_transform.position().is_custom() { local_transform.set_position(
\* **resource_local_transform.position()) }" and its eight likes: a component
\* set by hand keeps its value, another takes the template's through the setter
synced(node, resource_node, component) ==
    IF component \in node.custom THEN node
    ELSE set_local(node, component, local(resource_node, component))

RECURSIVE sync_components(_, _, _)
sync_components(node, resource_node, components) ==
    IF components = <<>> THEN node
    ELSE sync_components(synced(node, resource_node, Head(components)),
                         resource_node, Tail(components))

\* the first pass on a node whose template node was found: the transform is
\* taken with local_transform_mut
sync_with_resource(node, resource_node, original) ==
    [sync_components(
         local_transform_mut([node EXCEPT !.original_handle_in_resource = original]),
         resource_node, LocalComponents)
        EXCEPT !.bones = IF node.kind = "Mesh" /\ resource_node.kind = "Mesh"
                         THEN resource_node.bones ELSE @]

\* a first pass that takes a pending resource for a failed one
resolve_original_pending_skipped(g, h, state) ==
    IF borrow(g, h).resource = <<>> THEN g
    ELSE IF state[borrow(g, h).resource[1]] # "Ok" THEN g
    ELSE IF resource_node_of(borrow(g, h).resource[1], borrow(g, h)) = <<>> THEN g
    ELSE set_node(g, h,
           sync_with_resource(
               borrow(g, h),
               borrow(borrow(g, h).resource[1].graph,
                      Head(resource_node_of(borrow(g, h).resource[1], borrow(g, h)))),
               Head(resource_node_of(borrow(g, h).resource[1], borrow(g, h)))))

\* a first pass that removes a node whose template node is gone
resolve_original_removing(g, h, state) ==
    IF ~is_valid_handle(g, h) \/ borrow(g, h).resource = <<>> THEN g
    ELSE IF state[borrow(g, h).resource[1]] # "Ok" THEN g
    ELSE IF resource_node_of(borrow(g, h).resource[1], borrow(g, h)) = <<>>
    THEN remove_node(g, h)
    ELSE set_node(g, h,
           sync_with_resource(
               borrow(g, h),
               borrow(borrow(g, h).resource[1].graph,
                      Head(resource_node_of(borrow(g, h).resource[1], borrow(g, h)))),
               Head(resource_node_of(borrow(g, h).resource[1], borrow(g, h)))))

\* the first pass on one node; state gives the state of each resource
resolve_original(g, h, state) ==
    IF borrow(g, h).resource = <<>> THEN g
    ELSE IF state[borrow(g, h).resource[1]] = "Pending" THEN Panic(logged(g, PendingPanic))
    ELSE IF state[borrow(g, h).resource[1]] # "Ok" THEN g
    ELSE IF resource_node_of(borrow(g, h).resource[1], borrow(g, h)) = <<>> THEN g
    ELSE set_node(g, h,
           sync_with_resource(
               borrow(g, h),
               borrow(borrow(g, h).resource[1].graph,
                      Head(resource_node_of(borrow(g, h).resource[1], borrow(g, h)))),
               Head(resource_node_of(borrow(g, h).resource[1], borrow(g, h)))))

RECURSIVE resolve_originals(_, _, _)
resolve_originals(g, hs, state) ==
    IF ~g.ok \/ hs = <<>> THEN g
    ELSE resolve_originals(resolve_original(g, Head(hs), state), Tail(hs), state)

\* "node.resource = Some(resource.clone())" on the restored copy and all its
\* descendants
with_resource(g, hs, r) ==
    [g EXCEPT !.records =
        [i \in 1..Len(@) |->
            IF handle_from_index(g, i - 1) \in hs /\ is_some(handle_from_index(g, i - 1))
            THEN [@[i] EXCEPT !.payload[1].resource = <<r>>]
            ELSE @[i]]]

\* a restoration that always takes the fail-safe route
restore_parent_fail_safe(g, instance, r, resource_node) == instance

\* where a restored node goes: the node of the instance named like its
\* template parent, else the root of the instance
restore_parent(g, instance, r, resource_node) ==
    IF is_some(resource_node.parent)
       /\ is_some(find_by_name(g, instance, borrow(r.graph, resource_node.parent).name).h)
    THEN find_by_name(g, instance, borrow(r.graph, resource_node.parent).name).h
    ELSE instance

\* the copy c of a missing template node gets the resource and its place;
\* "resource_graph[resource_node.parent()]" and the search for the parent by
\* name index the pools and may panic
restore_linked(g, c, instance, r, resource_node) ==
    IF is_some(resource_node.parent)
       /\ (\/ ~is_valid_handle(r.graph, resource_node.parent)
           \/ ~find_by_name(g, instance, borrow(r.graph, resource_node.parent).name).ok)
    THEN Panic(g)
    ELSE link_nodes(g, c.handle, restore_parent(g, instance, r, resource_node))

restore_copy(st, c, instance, r, resource_node) ==
    IF ~c.dest.ok THEN [g |-> c.dest, restored |-> st.restored]
    ELSE [g |-> restore_linked(with_resource(c.dest, Subtree(c.dest, c.handle), r),
                               c, instance, r, resource_node),
          restored |-> st.restored + Cardinality(c.map)]

\* the branch of a template node without an instance: the warning
\* "Instance of node .. is missing. Restoring integrity..." is written first,
\* then "Instantiate missing node": copy_node with the filter that accepts
\* all, which may panic after the warning
restore_node(st, instance, r, resource_node_handle) ==
    restore_copy(st,
                 copy_node(r.graph, resource_node_handle,
                           logged(st.g, "Restoring integrity"), AliveHandles(r.graph)),
                 instance, r, borrow(r.graph, resource_node_handle))

\* the while loop over traverse_stack for one instance. A template node
\* listed twice is checked twice. The loop ends unless the template has a
\* cycle: a handle popped with more nodes on the way to it than the template
\* has records lies on one; the graph is then marked as for a panic, the call
\* does not return.
RECURSIVE integrity_traverse(_, _, _, _)
integrity_traverse(st, instance, r, traverse_stack) ==
    IF ~st.g.ok \/ traverse_stack = <<>> THEN st
    ELSE IF \/ ~is_valid_handle(r.graph, traverse_stack[Len(traverse_stack)].node)
            \/ traverse_stack[Len(traverse_stack)].depth > Len(r.graph.records)
    THEN [st EXCEPT !.g = Panic(@)]
    ELSE IF traverse_stack[Len(traverse_stack)].node # r.graph.root
            /\ ~find_by_name(st.g, instance,
                   borrow(r.graph, traverse_stack[Len(traverse_stack)].node).name).ok
    THEN [st EXCEPT !.g = Panic(@)]
    ELSE integrity_traverse(
             IF traverse_stack[Len(traverse_stack)].node # r.graph.root
                /\ is_none(find_by_name(st.g, instance,
                       borrow(r.graph, traverse_stack[Len(traverse_stack)].node).name).h)
             THEN restore_node(st, instance, r, traverse_stack[Len(traverse_stack)].node)
             ELSE st,
             instance, r,
             SubSeq(traverse_stack, 1, Len(traverse_stack) - 1)
                \o pushed(borrow(r.graph, traverse_stack[Len(traverse_stack)].node).children,
                          traverse_stack[Len(traverse_stack)].depth))

\* the body of "for (instance, resource) in instances"
check_instance(st, instance, r, state) ==
    IF state[r] # "Ok" THEN st
    ELSE IF is_none(borrow(st.g, instance).original_handle_in_resource)
    THEN [st EXCEPT !.g = logged(@, "original node cannot be found")]
    ELSE integrity_traverse(st, instance, r,
                            <<[node |-> borrow(st.g, instance).original_handle_in_resource,
                               depth |-> 1]>>)

RECURSIVE check_instances(_, _, _)
check_instances(st, instances, state) ==
    IF ~st.g.ok \/ instances = <<>> THEN st
    ELSE check_instances(check_instance(st, Head(instances)[1], Head(instances)[2], state),
                         Tail(instances), state)

\* the instance roots with their resources, collected before the loop;
\* resource().unwrap() panics on an instance root without a resource
instance_roots(g) ==
    SelectSeq(pair_iter(g), LAMBDA h : borrow(g, h).is_resource_instance_root)

\* the second pass: integrity restoration
check_integrity(g, state) ==
    IF ~g.ok THEN [g |-> g, restored |-> 0]
    ELSE IF \E i \in 1..Len(instance_roots(g)) : borrow(g, instance_roots(g)[i]).resource = <<>>
    THEN [g |-> Panic(g), restored |-> 0]
    ELSE check_instances([g |-> g, restored |-> 0],
                         [i \in 1..Len(instance_roots(g)) |->
                             <<instance_roots(g)[i], borrow(g, instance_roots(g)[i]).resource[1]>>],
                         state)

UnresolvedBone == "Unable to find bone"

\* the loop over the bones of a surface and the retain that follows it; the
\* message about an unresolved bone indexes the graph with the bone handle
RECURSIVE remap_bones(_, _, _, _, _)
remap_bones(g, node_handle, root_handle, bones, kept) ==
    IF bones = <<>>
    THEN set_node(g, node_handle, [borrow(g, node_handle) EXCEPT !.bones = kept])
    ELSE IF ~find_copy_of(g, root_handle, Head(bones)).ok THEN Panic(g)
    ELSE IF is_some(find_copy_of(g, root_handle, Head(bones)).h)
    THEN remap_bones(g, node_handle, root_handle, Tail(bones),
                     Append(kept, find_copy_of(g, root_handle, Head(bones)).h))
    ELSE IF ~is_valid_handle(g, Head(bones)) THEN Panic(g)
    ELSE remap_bones(logged(g, UnresolvedBone), node_handle, root_handle, Tail(bones), kept)

\* the third pass, over the alive nodes in index order
RECURSIVE remap_meshes(_, _)
remap_meshes(g, hs) ==
    IF ~g.ok \/ hs = <<>> THEN g
    ELSE IF borrow(g, Head(hs)).kind # "Mesh" THEN remap_meshes(g, Tail(hs))
    ELSE IF ~find_model_root(g, Head(hs), Len(g.records) + 1).ok THEN Panic(g)
    ELSE remap_meshes(remap_bones(g, Head(hs),
                                  find_model_root(g, Head(hs), Len(g.records) + 1).h,
                                  borrow(g, Head(hs)).bones, <<>>),
                      Tail(hs))

resolve_bones(st) == [st EXCEPT !.g = remap_meshes(@, pair_iter(@))]

\* Graph::resolve, given the state of every resource
resolve(g, state) ==
    resolve_bones(check_integrity(
        resolve_originals(update_hierarchical_data(g), pair_iter(g), state), state))

\* The templates: a root (named RootName) and k further nodes; node i hangs under node
\* parent[i] < i (0 is the root) and is named name[i], which is i or repeats
\* the name of node 1; with mesh, node k is a Mesh whose surface lists the
\* root and the other nodes as bones. Every node has the given position and
\* scale; its other seven components have the value of the position.
TemplateShapes ==
    UNION {[parent : {f \in [1..k -> 0..(k - 1)] : \A i \in 1..k : f[i] < i},
            name : {f \in [1..k -> 1..k] : \A i \in 1..k : f[i] \in {i, 1}},
            mesh : BOOLEAN] : k \in 1..MaxTemplateNodes}

TemplateNode(t, i, pos, scale) ==
    [NewNode(IF t.mesh /\ i = Len(t.parent) THEN "Mesh" ELSE "Base",
             <<>>, NoLifetime, pos, NONE, NONE)
        EXCEPT !.name = t.name[i], !.scale = scale,
               !.rest = [component \in OtherComponents |-> pos],
               !.bones = IF t.mesh /\ i = Len(t.parent)
                         THEN [j \in 1..i |-> MkHandle(j - 1, 1)] ELSE <<>>]

RECURSIVE TemplateUpTo(_, _, _, _)
TemplateUpTo(t, i, pos, scale) ==
    IF i = 0 THEN GraphNew
    ELSE link_nodes(add_node(TemplateUpTo(t, i - 1, pos, scale),
                             TemplateNode(t, i, pos, scale)).g,
                    MkHandle(i, 1), MkHandle(t.parent[i], 1))

TemplateGraph(t, pos, scale) == TemplateUpTo(t, Len(t.parent), pos, scale)

\* The model a scene refers to: position 1 and scale 2 everywhere.
Resource(t, mapping) == [mapping |-> mapping, graph |-> TemplateGraph(t, 1, 2)]

\* Model::instantiate: the template is copied under the root of the scene;
\* every copy refers to the model and to the node it was copied from, and the
\* copy of the template's root is the root of the instance.
instantiated(g, m, r, instance) ==
    [g EXCEPT !.records =
        [i \in 1..Len(@) |->
            IF \E e \in m : e[2] = handle_from_index(g, i - 1)
            THEN [@[i] EXCEPT
                    !.payload[1].resource = <<r>>,
                    !.payload[1].original_handle_in_resource =
                        (CHOOSE e \in m : e[2] = handle_from_index(g, i - 1))[1],
                    !.payload[1].is_resource_instance_root =
                        (handle_from_index(g, i - 1) = instance)]
            ELSE @[i]]]

instantiate_copy(c, r) == instantiated(c.dest, c.map, r, c.handle)

instantiate(r, data, g) ==
    instantiate_copy(copy_node(data, data.root, g, AliveHandles(data)), r)

\* A scene saved when the model had position 0 and scale 1 everywhere.
Scene(t, mapping) ==
    instantiate(Resource(t, mapping), TemplateGraph(t, 0, 1), GraphNew)

\* A second model, of which the scene holds one node.
OtherResource == [mapping |-> "UseNames", graph |-> GraphNew]
with_other(g) ==
    add_node(g, [NewNode("Base", <<>>, NoLifetime, 0, NONE, NONE)
                    EXCEPT !.resource = <<OtherResource>>]).g

InitResolve ==
    /\ \E t \in TemplateShapes, mapping \in NodeMappings, other \in BOOLEAN :
         \E g \in {IF other THEN with_other(Scene(t, mapping)) ELSE Scene(t, mapping)} :
          /\ records = g.records /\ free_stack = g.free_stack /\ root = g.root
          /\ last = Call("new", NONE, NONE, <<>>, g.root)
    /\ collider_map = {} /\ bodies = {} /\ colliders = {} /\ joints = {}
    /\ body_data = {} /\ next_native = 1
    /\ tickets = {} /\ subgraphs = {} /\ dead = {} /\ NoSound /\ calls = 0

\* the name a user gives a node; no template node has it
Renamed == MaxTemplateNodes + 1

\* Base::set_name
SetName(h, name) ==
    /\ Running
    /\ Outcome(set_node(G, h, [borrow(G, h) EXCEPT !.name = name]),
               Call("set_name", h, NONE, <<>>, NONE), dead, tickets, subgraphs)

\* local_transform_mut().set_position(pos) by the user: the component becomes
\* custom and transform_modified is set
SetPosition(h, pos) ==
    /\ Running
    /\ Outcome(set_node(G, h, set_position(local_transform_mut(borrow(G, h)), pos)),
               Call("set_position", h, NONE, <<>>, NONE), dead, tickets, subgraphs)

\* the models the alive nodes refer to
ResourcesOf(g) ==
    {borrow(g, h).resource[1] : h \in {x \in AliveHandles(g) : borrow(g, x).resource # <<>>}}

\* Graph::resolve, with every model in some state; the number of restored
\* nodes is what the last message of the integrity pass reports
Resolve(state) ==
    /\ Running
    /\ \E r \in {resolve(G, state)} :
          Outcome(r.g, [Call("resolve", NONE, NONE, <<>>, r.restored)
                          EXCEPT !.log = r.g.log, !.dest = <<state>>],
                  dead, tickets, subgraphs)

NextResolve ==
    /\ calls < MaxResolveCalls
    /\ last.op # "resolve"
    /\ \/ \E h \in Movable : RemoveNode(h)
       \/ \E h \in Movable : SetName(h, Renamed)
       \/ \E h \in Movable : SetPosition(h, 2)
       \/ \E state \in [ResourcesOf(G) -> ResourceStates] : Resolve(state)

SpecResolve == InitResolve /\ [][NextResolve]_vars

ResolveDone == last.op = "resolve" /\ last.res = "ok"
ResolvePanic == last.op = "resolve" /\ last.res = "panic"

\* C25: resolve panics with "resources must be awaited before doing resolve!"
\* when the resource of some alive node is Pending, and that panic does not
\* happen when every resource an alive node refers to is Ok or failed.
C25_PendingIsFatal ==
    [][last'.op = "resolve" =>
          IF \E r \in ResourcesOf(G) : last'.dest[1][r] = "Pending"
          THEN /\ last'.res = "panic"
               /\ last'.log # <<>> /\ last'.log[Len(last'.log)] = PendingPanic
          ELSE PendingPanic \notin Range(last'.log)
    ]_vars

\* C25 witness: a scene with nodes of two models, one loaded and one pending;
\* resolve panicked with the message about awaiting
C25_Witness ==
    /\ ResolvePanic
    /\ PendingPanic \in Range(last.log)
    /\ \E r1, r2 \in ResourcesOf(G) :
          last.dest[1][r1] = "Ok" /\ last.dest[1][r2] = "Pending"

\* C24: when resolve returns, a node that had a loaded resource and a matching
\* template node has, for each local-transform component, the template's value
\* if the component was not custom and its own old value if it was; a node
\* without a resource, with a failed one or without a matching template node has
\* all its components as before.
C24_TemplatedSync ==
    [][(last'.op = "resolve" /\ last'.res = "ok") =>
          \A h \in AliveHandles(G) :
             LET node == borrow(G, h)
                 after == borrow(G', h)
                 found == IF node.resource = <<>> \/ last'.dest[1][node.resource[1]] # "Ok"
                          THEN <<>>
                          ELSE resource_node_of(node.resource[1], node)
             IN  /\ h \in AliveHandles(G')
                 /\ \A component \in Range(LocalComponents) :
                       local(after, component) =
                          IF found = <<>> \/ component \in node.custom
                          THEN local(node, component)
                          ELSE local(borrow(node.resource[1].graph, found[1]), component)
    ]_vars

\* C24 witness: after resolve one node of the instance keeps the position 2
\* its user gave it and has the template's scale 2 and rotation 1, another has
\* the template's position 1; both were saved with position 0, scale 1 and
\* rotation 0, and the setters of the resync have marked every component.
C24_Witness ==
    /\ ResolveDone
    /\ \E h1, h2 \in AliveHandles(G) :
          /\ h1 # h2
          /\ borrow(G, h1).resource # <<>> /\ borrow(G, h2).resource # <<>>
          /\ last.dest[1][borrow(G, h1).resource[1]] = "Ok"
          /\ borrow(G, h1).resource = borrow(G, h2).resource
          /\ borrow(G, h1).pos = 2 /\ borrow(G, h1).scale = 2
          /\ borrow(G, h1).rest["rotation"] = 1
          /\ borrow(G, h2).pos = 1 /\ borrow(G, h2).scale = 2
          /\ borrow(G, h2).rest["scaling_pivot"] = 1
          /\ borrow(G, h1).custom = Range(LocalComponents)
          /\ borrow(G, h2).custom = Range(LocalComponents)
          /\ borrow(G, h1).transform_modified /\ borrow(G, h2).transform_modified
          /\ is_some(borrow(G, h2).original_handle_in_resource)
          /\ ~borrow(G, h2).is_resource_instance_root

\* what the first two passes leave, for a call that gets that far
AfterIntegrity(g, state) ==
    check_integrity(resolve_originals(update_hierarchical_data(g), pair_iter(g), state),
                    state).g

\* the nodes of g under the model root of mesh that were made from the template
\* node bone
CopiesOf(g, mesh, bone) ==
    {x \in Subtree(g, find_model_root(g, mesh, Len(g.records) + 1).h) :
        borrow(g, x).original_handle_in_resource = bone}

\* the bone list after of a mesh is the list before with every bone that has a
\* copy replaced by such a copy and every other bone left out
BonesRemapped(g, mesh, before, after) ==
    LET kept == SelectSeq(before, LAMBDA b : CopiesOf(g, mesh, b) # {})
    IN  /\ Len(after) = Len(kept)
        /\ \A i \in 1..Len(kept) : after[i] \in CopiesOf(g, mesh, kept[i])

\* C26: a resolve whose first two passes complete returns; after it the bones
\* of every mesh are alive nodes under the mesh's model root whose
\* original_handle_in_resource is the template bone they replace, in the order
\* of the template bones; bones without such a node are left out.
C26_BonesRemapped ==
    [][(last'.op = "resolve" /\ AfterIntegrity(G, last'.dest[1]).ok) =>
          /\ last'.res = "ok"
          /\ \A h \in AliveHandles(G') :
                borrow(G', h).kind = "Mesh" =>
                   BonesRemapped(G', h, borrow(AfterIntegrity(G, last'.dest[1]), h).bones,
                                 borrow(G', h).bones)
    ]_vars

\* C26, for the calls that return
C26_BonesRemappedOnReturn ==
    [][(last'.op = "resolve" /\ last'.res = "ok") =>
          \A h \in AliveHandles(G') :
             borrow(G', h).kind = "Mesh" =>
                BonesRemapped(G', h, borrow(AfterIntegrity(G, last'.dest[1]), h).bones,
                              borrow(G', h).bones)
    ]_vars

\* C26 witness: resolve panicked although the model was loaded and the first
\* two passes completed: the message about an unresolved bone indexed
\* the graph with a template handle that is no handle of the graph. The names
\* of the template are distinct.
C26_Witness ==
    /\ ResolvePanic
    /\ AfterIntegrity(G, last.dest[1]).ok
    /\ \E h \in AliveHandles(G) :
          /\ borrow(G, h).kind = "Mesh"
          /\ borrow(G, h).resource # <<>>
          /\ last.dest[1][borrow(G, h).resource[1]] = "Ok"
          /\ \A x, y \in AliveHandles(borrow(G, h).resource[1].graph) :
                x # y => borrow(borrow(G, h).resource[1].graph, x).name
                         # borrow(borrow(G, h).resource[1].graph, y).name
          /\ \E i \in 1..Len(borrow(AfterIntegrity(G, last.dest[1]), h).bones) :
                LET bone == borrow(AfterIntegrity(G, last.dest[1]), h).bones[i]
                IN  /\ CopiesOf(AfterIntegrity(G, last.dest[1]), h, bone) = {}
                    /\ ~is_valid_handle(AfterIntegrity(G, last.dest[1]), bone)

\* The vocabulary of C23. The instance roots resolve works on: alive, with a
\* loaded resource and, after the first pass, an original node in the template.
ResolvedInstances(state) ==
    {h \in AliveHandles(G) :
        /\ borrow(G, h).is_resource_instance_root
        /\ state[borrow(G, h).resource[1]] = "Ok"
        /\ is_valid_handle(borrow(G, h).resource[1].graph,
                           borrow(G', h).original_handle_in_resource)}

\* the template nodes below the original of instance
TemplateDescendants(instance) ==
    Subtree(borrow(G, instance).resource[1].graph,
            borrow(G', instance).original_handle_in_resource)
       \ {borrow(G', instance).original_handle_in_resource}

TemplateName(instance, d) == borrow(borrow(G, instance).resource[1].graph, d).name

\* the nodes with the given name in a set of nodes of g
Named(g, hs, name) == {x \in hs : borrow(g, x).name = name}

\* the nodes this call added
Restored == AliveHandles(G') \ AliveHandles(G)

\* x sits under a node named like the template parent of d, or under the root
\* of the instance when the instance had no node of that name
LinkedLike(instance, x, d) ==
    LET p == borrow(borrow(G, instance).resource[1].graph, d).parent
    IN  \/ borrow(G', borrow(G', x).parent).name = TemplateName(instance, p)
        \/ /\ borrow(G', x).parent = instance
           /\ Named(G, Subtree(G, instance), TemplateName(instance, p)) = {}

DistinctNames(g) ==
    \A x, y \in AliveHandles(g) : x # y => borrow(g, x).name # borrow(g, y).name

\* the claim for one instance: every template descendant has a node of its
\* name in the instance; one that had none was instantiated once, in its
\* place
RestoredEach(instance) ==
    \A d \in TemplateDescendants(instance) :
       /\ Named(G', Subtree(G', instance), TemplateName(instance, d)) # {}
       /\ Named(G, Subtree(G, instance), TemplateName(instance, d)) = {} =>
             /\ Cardinality(Named(G', Restored \cap Subtree(G', instance),
                                  TemplateName(instance, d)))
                  = Cardinality({e \in TemplateDescendants(instance) :
                                    TemplateName(instance, e) = TemplateName(instance, d)})
             /\ \A x \in Named(G', Restored \cap Subtree(G', instance),
                               TemplateName(instance, d)) :
                   \E e \in TemplateDescendants(instance) :
                      /\ TemplateName(instance, e) = TemplateName(instance, d)
                      /\ LinkedLike(instance, x, e)

\* C23 as stated: after resolve every template descendant has a live node of
\* its name in the instance, each one that had none is instantiated exactly
\* once and linked under the node named like its template parent or under the
\* instance root, and the reported count is the number of nodes added.
C23_IntegrityRestored ==
    [][(last'.op = "resolve" /\ last'.res = "ok") =>
          /\ \A instance \in ResolvedInstances(last'.dest[1]) : RestoredEach(instance)
          /\ last'.ret = Cardinality(Restored)
    ]_vars

\* C23, corrected: resolve removes no node and reports the number of nodes it
\* added; every added node carries the resource of an instance, lies in that
\* instance, is named like a template descendant and sits under a node named
\* like that descendant's template parent or under the instance root; after
\* resolve every template descendant has a node of its name in the instance.
\* For a template with distinct names each descendant that had no such node is
\* instantiated exactly once, which is the claim as stated.
C23_IntegrityByName ==
    [][(last'.op = "resolve" /\ last'.res = "ok") =>
          /\ AliveHandles(G) \subseteq AliveHandles(G')
          /\ last'.ret = Cardinality(Restored)
          /\ \A x \in Restored :
                \E instance \in ResolvedInstances(last'.dest[1]) :
                   /\ x \in Subtree(G', instance)
                   /\ borrow(G', x).resource = borrow(G, instance).resource
                   /\ \E d \in TemplateDescendants(instance) :
                         /\ TemplateName(instance, d) = borrow(G', x).name
                         /\ LinkedLike(instance, x, d)
          /\ \A instance \in ResolvedInstances(last'.dest[1]) :
                /\ \A d \in TemplateDescendants(instance) :
                      Named(G', Subtree(G', instance), TemplateName(instance, d)) # {}
                /\ DistinctNames(borrow(G, instance).resource[1].graph) =>
                      RestoredEach(instance)
    ]_vars

\* C23 witness: the template has three children of distinct names under its
\* root, the instance lacked one of them; after resolve it has three children
\* with the three names and the reported count is 1.
C23_Witness ==
    /\ ResolveDone /\ last.ret = 1
    /\ \E instance \in AliveHandles(G) :
          /\ borrow(G, instance).is_resource_instance_root
          /\ LET t == borrow(G, instance).resource[1].graph
             IN  /\ Len(borrow(t, t.root).children) = 3
                 /\ DistinctNames(t)
                 /\ Len(borrow(G, instance).children) = 3
                 /\ {borrow(G, x).name : x \in Range(borrow(G, instance).children)}
                      = {borrow(t, d).name : d \in Range(borrow(t, t.root).children)}
                 /\ \E x \in Range(borrow(G, instance).children) :
                       /\ x.generation = 2
                       /\ is_none(borrow(G, x).original_handle_in_resource)
                       /\ borrow(G, x).resource = borrow(G, instance).resource

\* ------------------------------------------------------- sync scenario
\* A scene of rigid bodies, colliders and joints that has been through some
\* updates; the caller edits properties through their setters (which set the
\* dirty bit), moves nodes, re-links and removes them, and update runs in two
\* steps: the sync pass, then the rest of update.
SyncKinds == {"RigidBody", "Collider", "Joint"}
SyncOrders == UNION {[1..n -> SyncKinds] : n \in 1..MaxSyncNodes}

\* the first alive node of the given kind in arena order, or NONE
first_of_kind(g, kind) ==
    IF \E h \in AliveHandles(g) : borrow(g, h).kind = kind
    THEN CHOOSE h \in AliveHandles(g) :
            /\ borrow(g, h).kind = kind
            /\ \A x \in AliveHandles(g) : borrow(g, x).kind = kind => h.index <= x.index
    ELSE NONE

\* The graph after the nodes of order were added to a new graph, the rigid
\* bodies with the linear velocity vel, the joints with the first rigid body as
\* both of their bodies.
RECURSIVE SyncBuilt(_, _, _)
SyncBuilt(order, vel, n) ==
    IF n = 0 THEN GraphNew
    ELSE add_node(SyncBuilt(order, vel, n - 1),
                  [NewNode(order[n], <<>>, NoLifetime, 0,
                           first_of_kind(SyncBuilt(order, vel, n - 1), "RigidBody"),
                           first_of_kind(SyncBuilt(order, vel, n - 1), "RigidBody"))
                     EXCEPT !.lin_vel = IF order[n] = "RigidBody" THEN vel ELSE 0]).g

\* every collider of g linked under the rigid body under
RECURSIVE SyncLinked(_, _, _)
SyncLinked(g, under, i) ==
    IF i >= Len(g.records) \/ is_none(under) THEN g
    ELSE IF g.records[i + 1].payload # <<>> /\ g.records[i + 1].payload[1].kind = "Collider"
    THEN SyncLinked(link_nodes(g, handle_from_index(g, i), under), under, i + 1)
    ELSE SyncLinked(g, under, i + 1)

RECURSIVE SyncWarmed(_, _)
SyncWarmed(g, k) == IF k = 0 THEN g ELSE SyncWarmed([update(g, 1) EXCEPT !.log = <<>>], k - 1)

\* The scene: the nodes added, the colliders linked under the first rigid
\* body, and k updates.
SyncScene(order, vel, k) ==
    SyncWarmed(SyncLinked(SyncBuilt(order, vel, Len(order)),
                          first_of_kind(SyncBuilt(order, vel, Len(order)), "RigidBody"), 0),
               k)

\* The scene after its first rigid body node spent one more update out of the
\* graph: take_reserve, update, put_back. The body went on without its node,
\* which comes back with the position and the flags it left with.
SyncAway(g) ==
    put_back(SyncWarmed(take_reserve(g, first_of_kind(g, "RigidBody")).g, 1),
             take_reserve(g, first_of_kind(g, "RigidBody")).ticket,
             take_reserve(g, first_of_kind(g, "RigidBody")).node[1]).g

\* The scenes with a node that was away have a moving body that exists: with
\* a body at rest the node comes back to where its body is.
InitSync ==
    /\ \E order \in SyncOrders, vel \in Velocities, k \in 0..MaxSyncWarm, away \in BOOLEAN :
          /\ away => /\ k > 0 /\ vel # 0
                      /\ is_some(first_of_kind(SyncScene(order, vel, k), "RigidBody"))
          /\ \E g \in {IF away THEN SyncAway(SyncScene(order, vel, k))
                               ELSE SyncScene(order, vel, k)} :
             /\ g.ok
             /\ records = g.records /\ free_stack = g.free_stack /\ root = g.root
             /\ collider_map = g.collider_map /\ bodies = g.bodies
             /\ colliders = g.colliders /\ joints = g.joints
             /\ body_data = g.body_data /\ next_native = g.next_native
             /\ last = Call("new", NONE, NONE, <<>>, g.root)
    /\ tickets = {} /\ subgraphs = {} /\ dead = {} /\ NoSound /\ calls = 0

InSync == last.op = "sync_native_physics" /\ last.res = "ok"
SyncRunning == last.res # "panic" /\ calls < MaxSyncCalls /\ ~InSync

\* A call that returns leaves the graph g, and the record of the call keeps
\* the graph as it was before the call; a call that panics ends the program.
SyncReturn(g, call, t, before, n) ==
    IF g.ok
    THEN /\ Commit(g)
         /\ last' = [call EXCEPT !.gone = NativeIds(before) \ NativeIds(g), !.log = g.log,
                                 !.snap = <<before>>]
         /\ tickets' = t
         /\ calls' = n
         /\ UNCHANGED <<SoundVars, dead, subgraphs>>
    ELSE /\ last' = [call EXCEPT !.res = "panic", !.snap = <<before>>]
         /\ calls' = n
         /\ UNCHANGED <<GraphVars, SoundVars, dead, tickets, subgraphs>>

SyncOutcome(g, call, t) == SyncReturn(g, call, t, G, calls + 1)

\* the number of update calls that returned one after the other up to now
Streak == IF last.op \in {"update", "sync_native_physics"} THEN last.ret ELSE 0

\* the values a setter is called with
PropertyValues(bit) == IF bit = "SHAPE" THEN {1, NoGeometry} ELSE {1}

\* set_mass, set_friction, set_shape, ...: the setter of a property stores the
\* value and sets the property's dirty bit
set_property(g, h, bit, v) ==
    set_node(g, h, [borrow(g, h) EXCEPT !.properties[bit] = v, !.changes = @ \cup {bit}])

SyncSetProperty ==
    /\ SyncRunning
    /\ \E h \in AliveHandles(G) :
          \E bit \in PropertyNames(borrow(G, h).kind) : \E v \in PropertyValues(bit) :
             SyncOutcome(set_property(G, h, bit, v),
                         Call("set_property", h, NONE, <<bit>>, v), tickets)

\* set_lin_vel of a rigid body node
SyncSetLinVel ==
    /\ SyncRunning
    /\ \E h \in KindHandles("RigidBody") :
          SyncOutcome(set_node(G, h, [borrow(G, h) EXCEPT !.lin_vel = 1,
                                                        !.changes = @ \cup {"LIN_VEL"}]),
                      Call("set_lin_vel", h, NONE, <<>>, 1), tickets)

\* local_transform_mut() of a rigid body or collider node: the position is
\* edited and transform_modified is set
SyncSetPosition ==
    /\ SyncRunning
    /\ \E h \in KindHandles("RigidBody") \cup KindHandles("Collider") :
          SyncOutcome(set_node(G, h, set_position(local_transform_mut(borrow(G, h)),
                                                  1 - borrow(G, h).pos)),
                      Call("set_body_position", h, NONE, <<>>, NONE), tickets)

SyncLink ==
    /\ SyncRunning
    /\ \E c \in Movable : \E p \in ParentsFor(c) :
          SyncOutcome(link_nodes(G, c, p), Call("link_nodes", c, p, <<>>, NONE), tickets)

SyncUnlink ==
    /\ SyncRunning
    /\ \E h \in Movable :
          SyncOutcome(unlink_node(G, h), Call("unlink_node", h, NONE, <<>>, NONE), tickets)

SyncRemove ==
    /\ SyncRunning
    /\ \E h \in Movable :
          SyncOutcome(remove_node(G, h), Call("remove_node", h, NONE, <<>>, NONE), tickets)

SyncTakeReserve ==
    /\ SyncRunning /\ Held < MaxHeld
    /\ \E h \in Movable : \E t \in {take_reserve(G, h)} :
          SyncOutcome(t.g, Call("take_reserve", h, NONE, <<>>, NONE),
                      IF t.g.ok
                      THEN tickets \cup {[ticket |-> t.ticket, node |-> t.node[1],
                                          origin |-> h]}
                      ELSE tickets)

\* the first step of update: the sync pass
SyncNativePhysics ==
    /\ SyncRunning
    /\ SyncOutcome(sync_native_physics(G),
                   Call("sync_native_physics", NONE, NONE, <<>>, Streak), tickets)

\* the rest of update, after the sync pass; the record of the call keeps the
\* graph as it was when update was called
SyncFinishUpdate ==
    /\ InSync
    /\ SyncReturn(update_nodes(update_hierarchical_data(physics_update(G)), 1),
                  Call("update", NONE, NONE, <<>>, Streak + 1), tickets, last.snap[1], calls)

NextSync ==
    \/ SyncSetProperty
    \/ SyncSetLinVel
    \/ SyncSetPosition
    \/ SyncLink
    \/ SyncUnlink
    \/ SyncRemove
    \/ SyncTakeReserve
    \/ SyncNativePhysics
    \/ SyncFinishUpdate

SpecSync == InitSync /\ [][NextSync]_vars

\* the call that just returned was a sync pass, from the graph last.snap[1]
Synced == last.op = "sync_native_physics" /\ last.res = "ok"
Before == last.snap[1]

\* the nodes of kind that had a live native entity in g
WithEntity(g, kind) ==
    {h \in AliveHandles(g) :
        /\ borrow(g, h).kind = kind
        /\ borrow(g, h).native \in
              (CASE kind = "RigidBody" -> g.bodies
                 [] kind = "Collider" -> ColliderIds(g)
                 [] OTHER -> JointIds(g))}

\* C31: after a sync pass every RigidBody node that had a native body before
\* the pass has transform_modified = false and none of its seven dirty bits
\* set, and the body holds the node's value of every field that was dirty
\* (and the node's position when transform_modified was set).
C31_BodyDrained ==
    Synced =>
        \A h \in WithEntity(Before, "RigidBody") :
           LET n == borrow(Before, h)
               m == borrow(G, h)
               b == body(G, m.native)
           IN  /\ m.native = n.native /\ m.native \in bodies
               /\ ~m.transform_modified
               /\ m.changes \cap RigidBodyBits = {}
               /\ m.properties = n.properties /\ m.lin_vel = n.lin_vel /\ m.pos = n.pos
               /\ \A f \in n.changes \cap PropertyNames("RigidBody") :
                     b.properties[f] = n.properties[f]
               /\ "LIN_VEL" \in n.changes => b.lin_vel = n.lin_vel
               /\ n.transform_modified => b.pos = n.pos

C31_Witness ==
    /\ Synced
    /\ \E h \in WithEntity(Before, "RigidBody") :
          /\ borrow(Before, h).transform_modified
          /\ "MASS" \in borrow(Before, h).changes
          /\ body(Before, borrow(Before, h).native).properties["MASS"] = 0
          /\ body(G, borrow(G, h).native).properties["MASS"] = 1
          /\ body(Before, borrow(Before, h).native).pos # borrow(Before, h).pos

\* C32: the sync pass writes to a native entity only the fields whose dirty
\* bit is set, and the pose only when transform_modified is set: for a node
\* that had a native entity before the pass, every field of the entity with a
\* clear bit is as before, and the entity of a node with no dirty bit and
\* transform_modified = false is unchanged as a whole.
C32_OnlyDirtyWritten ==
    Synced =>
        /\ \A h \in WithEntity(Before, "RigidBody") :
              LET n == borrow(Before, h)
                  b0 == body(Before, n.native)
                  b1 == body(G, n.native)
              IN  /\ n.native \in bodies
                  /\ ~n.transform_modified => b1.pos = b0.pos
                  /\ "LIN_VEL" \notin n.changes => b1.lin_vel = b0.lin_vel
                  /\ \A f \in PropertyNames("RigidBody") \ n.changes :
                        b1.properties[f] = b0.properties[f]
                  /\ (n.changes = {} /\ ~n.transform_modified) => b1 = b0
        /\ \A h \in WithEntity(Before, "Collider") :
              LET n == borrow(Before, h)
                  c0 == native_collider(Before, n.native)
                  c1 == native_collider(G, n.native)
              IN  /\ n.native \in ColliderIds(G)
                  /\ c1.parent = c0.parent
                  /\ ~n.transform_modified => c1.pos = c0.pos
                  /\ \A f \in PropertyNames("Collider") \ n.changes :
                        c1.properties[f] = c0.properties[f]
                  /\ (n.changes = {} /\ ~n.transform_modified) => c1 = c0
        /\ \A h \in WithEntity(Before, "Joint") :
              LET n == borrow(Before, h)
                  j0 == native_joint(Before, n.native)
                  j1 == native_joint(G, n.native)
              IN  /\ n.native \in JointIds(G)
                  /\ j1.body1 = j0.body1 /\ j1.body2 = j0.body2
                  /\ "PARAMS" \notin n.changes => j1 = j0

\* a body whose node is elsewhere without the flag (the node was out of the
\* graph, in a ticket, while the body moved) keeps its pose, while its dirty
\* mass is written
C32_Witness ==
    /\ Synced
    /\ \E h \in WithEntity(Before, "RigidBody") :
          /\ ~borrow(Before, h).transform_modified
          /\ borrow(Before, h).pos # body(Before, borrow(Before, h).native).pos
          /\ body(G, borrow(G, h).native).pos = body(Before, borrow(Before, h).native).pos
          /\ borrow(Before, h).changes = {"MASS"}
          /\ body(G, borrow(G, h).native).properties["MASS"] = 1
          /\ body(G, borrow(G, h).native).properties["ANG_VEL"] = 0

\* C33 as stated: after a sync pass every Collider node with a native collider
\* has transform_modified = false and none of its six dirty bits set.
C33_ColliderDrained ==
    Synced =>
        \A h \in WithEntity(G, "Collider") :
           /\ ~borrow(G, h).transform_modified
           /\ borrow(G, h).changes \cap ColliderBits = {}

\* C33: after a sync pass every Collider node that had a native collider
\* before the pass has transform_modified = false and its bits for
\* restitution, collision groups, solver groups, friction and is-sensor
\* cleared; its SHAPE bit is cleared when the shape converts to a native
\* shape and stays as it was, with the collider's shape untouched, when it
\* does not. A collider created by the pass keeps its flags.
C33_ColliderDrainedIfHad ==
    Synced =>
        /\ \A h \in WithEntity(Before, "Collider") :
              LET n == borrow(Before, h)
                  m == borrow(G, h)
              IN  /\ m.native = n.native /\ m.native \in ColliderIds(G)
                  /\ ~m.transform_modified
                  /\ m.changes \cap (ColliderBits \ {"SHAPE"}) = {}
                  /\ "SHAPE" \in m.changes <=>
                        ("SHAPE" \in n.changes
                           /\ into_native_shape(n.properties["SHAPE"]) = <<>>)
                  /\ "SHAPE" \in m.changes =>
                        native_collider(G, m.native).properties["SHAPE"]
                           = native_collider(Before, n.native).properties["SHAPE"]
        /\ \A h \in WithEntity(G, "Collider") \ WithEntity(Before, "Collider") :
              /\ borrow(G, h).changes = borrow(Before, h).changes
              /\ borrow(G, h).transform_modified = borrow(Before, h).transform_modified

\* a collider with a native whose new shape has no geometry: friction is
\* drained, SHAPE stays dirty
C33_Witness ==
    /\ Synced
    /\ \E h \in WithEntity(Before, "Collider") :
          /\ borrow(Before, h).changes = {"SHAPE", "FRICTION"}
          /\ borrow(Before, h).properties["SHAPE"] = NoGeometry
          /\ borrow(G, h).changes = {"SHAPE"}
          /\ native_collider(G, borrow(G, h).native).properties["FRICTION"] = 1
          /\ native_collider(G, borrow(G, h).native).properties["SHAPE"] # NoGeometry

\* the Collider nodes that have a native collider now and had none before the
\* call that just returned
Gained ==
    {h \in WithEntity(G, "Collider") :
        h \notin WithEntity(Before, "Collider")
           \/ borrow(Before, h).native # borrow(G, h).native}

\* C34: a Collider node receives a native collider only in a sync pass (the
\* record of an update is taken from before its sync pass) and only when its
\* parent is a RigidBody node with a live native body; at that moment the
\* native is a fresh one, collider_map maps it to the node's handle and it is
\* attached to the parent's body. A collider whose parent is not a rigid
\* body, or has no live body, does not get a native from the pass.
C34_ColliderCreation ==
    (last.op # "new" /\ last.res = "ok") =>
        /\ \A h \in Gained :
              LET m == borrow(G, h)
                  p == try_get(G, m.parent)
              IN  /\ last.op \in {"sync_native_physics", "update"}
                  /\ p # <<>> /\ p[1].kind = "RigidBody" /\ p[1].native \in bodies
                  /\ m.native \notin NativeIds(Before)
                  /\ map_get(collider_map, m.native) = <<h>>
                  /\ native_collider(G, m.native).parent = p[1].native
                  /\ into_native_shape(m.properties["SHAPE"]) # <<>>
        /\ Synced =>
              \A h \in KindHandles("Collider") \ WithEntity(Before, "Collider") :
                 LET p == try_get(G, borrow(G, h).parent)
                 IN  /\ borrow(G, h).parent = borrow(Before, h).parent
                     /\ (p = <<>> \/ p[1].kind # "RigidBody" \/ p[1].native \notin bodies)
                           => borrow(G, h).native \notin ColliderIds(G)

\* a pass that made the native of a collider under a rigid body and left a
\* collider under another node without one
C34_Witness ==
    /\ Synced
    /\ Gained # {}
    /\ \E h \in KindHandles("Collider") :
          /\ borrow(G, h).native \notin ColliderIds(G)
          /\ borrow(G, borrow(G, h).parent).kind # "RigidBody"
    /\ bodies # {}

\* the operations that detach their argument with unlink_internal
DetachOps == {"link_nodes", "unlink_node", "remove_node", "take_reserve"}

\* the native entities of a graph, with their data
Entities(g) == <<g.bodies, g.body_data, g.colliders, g.joints, g.collider_map>>

\* C35: link_nodes, unlink_node, remove_node and take_reserve detach their node
\* with unlink_internal. When the node is a Collider with a live native
\* collider, the detach removes that collider from the simulation and its
\* collider_map entry and sets the node's native to invalid, and nothing else
\* of the simulation changes; when the node is of another variant, or has no
\* live native, the detach leaves the simulation as it was. After the whole
\* call the collider is still gone; link_nodes, unlink_node and take_reserve
\* remove nothing else.
C35_DetachRemovesCollider ==
    (last.op \in DetachOps /\ last.res = "ok") =>
        LET h == last.a
            n == borrow(Before, h)
            d == unlink_internal(Before, h)
        IN  IF n.kind = "Collider" /\ n.native \in ColliderIds(Before)
            THEN /\ d.colliders = {c \in Before.colliders : c.id # n.native}
                 /\ d.collider_map = {e \in Before.collider_map : e[1] # n.native}
                 /\ map_get(d.collider_map, n.native) = <<>>
                 /\ d.bodies = Before.bodies /\ d.body_data = Before.body_data
                 /\ d.joints = Before.joints
                 /\ borrow(d, h).native = INVALID
                 /\ n.native \notin ColliderIds(G)
                 /\ map_get(collider_map, n.native) = <<>>
                 /\ last.op \in {"link_nodes", "unlink_node"} => borrow(G, h).native = INVALID
                 /\ last.op = "take_reserve" =>
                       \E t \in tickets : t.origin = h /\ t.node.native = INVALID
                 /\ last.op # "remove_node" => Entities(G) = Entities(d)
            ELSE /\ Entities(d) = Entities(Before)
                 /\ borrow(d, h).native = n.native
                 /\ last.op # "remove_node" => Entities(G) = Entities(Before)

\* a collider with a live native was linked to another parent
C35_Witness ==
    /\ last.op = "link_nodes" /\ last.res = "ok"
    /\ borrow(Before, last.a).kind = "Collider"
    /\ borrow(Before, last.a).native \in ColliderIds(Before)
    /\ map_get(Before.collider_map, borrow(Before, last.a).native) = <<last.a>>
    /\ borrow(G, last.a).native = INVALID
    /\ colliders = {}

\* ------------------------------------------------------- reload scenario
\* A scene saved with an instance of a model; since then node d of the model
\* (and what hangs under it) was deleted from the template, d = 0 for none.
\* The bones of the template's mesh that were deleted with it are not listed
\* by the new template.
kept_bones(g) ==
    [g EXCEPT !.records =
        [i \in 1..Len(@) |->
            IF @[i].payload = <<>> THEN @[i]
            ELSE [@[i] EXCEPT !.payload[1].bones =
                     SelectSeq(@, LAMBDA b : is_valid_handle(g, b))]]]

Pruned(data, d) == IF d = 0 THEN data ELSE kept_bones(remove_node(data, MkHandle(d, 1)))

ReloadedResource(t, mapping, d) ==
    [mapping |-> mapping, graph |-> Pruned(TemplateGraph(t, 1, 2), d)]

ReloadScene(t, mapping, d) ==
    instantiate(ReloadedResource(t, mapping, d), TemplateGraph(t, 0, 1), GraphNew)

InitReload ==
    /\ \E t \in TemplateShapes, mapping \in NodeMappings :
         \E d \in 0..Len(t.parent) : \E g \in {ReloadScene(t, mapping, d)} :
          /\ records = g.records /\ free_stack = g.free_stack /\ root = g.root
          /\ last = Call("new", NONE, NONE, <<>>, g.root)
    /\ collider_map = {} /\ bodies = {} /\ colliders = {} /\ joints = {}
    /\ body_data = {} /\ next_native = 1
    /\ tickets = {} /\ subgraphs = {} /\ dead = {} /\ NoSound /\ calls = 0

NextReload ==
    /\ calls < MaxReloadCalls
    /\ last.op # "resolve"
    /\ \/ \E h \in Movable : RemoveNode(h)
       \/ \E h \in Movable : SetName(h, Renamed)
       \/ \E c \in Movable : \E p \in ParentsFor(c) : LinkNodes(c, p)
       \/ \E state \in [ResourcesOf(G) -> {"Ok", "LoadError"}] : Resolve(state)

SpecReload == InitReload /\ [][NextReload]_vars

\* the template node a live node stands for was deleted from the template
Orphaned(g, h) ==
    /\ borrow(g, h).resource # <<>>
    /\ resource_node_of(borrow(g, h).resource[1], borrow(g, h)) = <<>>

IsPrefix(s, t) == Len(s) <= Len(t) /\ \A i \in 1..Len(s) : s[i] = t[i]

\* C36: resolve removes no node: every handle alive before a resolve that
\* returns is alive after it with the same parent, variant, name and model
\* (the template it carries is as before), its children are still its first
\* children, and the graph has grown by the number of restored nodes; this
\* holds also for nodes whose template node was deleted from the template.
C36_ResolveKeepsNodes ==
    [][(last'.op = "resolve" /\ last'.res = "ok") =>
          /\ \A h \in AliveHandles(G) :
                /\ h \in AliveHandles(G')
                /\ borrow(G', h).parent = borrow(G, h).parent
                /\ borrow(G', h).kind = borrow(G, h).kind
                /\ borrow(G', h).name = borrow(G, h).name
                /\ borrow(G', h).resource = borrow(G, h).resource
                /\ IsPrefix(borrow(G, h).children, borrow(G', h).children)
          /\ root' = root
          /\ Cardinality(AliveHandles(G')) = Cardinality(AliveHandles(G)) + last'.ret
          /\ \A h \in AliveHandles(G') \ AliveHandles(G) :
                borrow(G', h).resource # <<>>
                   /\ borrow(G', h).resource[1] \in ResourcesOf(G)
    ]_vars

\* a resolve with the model loaded returned: a node whose template node was
\* deleted is still there with a child of its own, and a node the user had
\* removed was restored
C36_Witness ==
    /\ ResolveDone
    /\ last.ret > 0
    /\ \E h \in AliveHandles(G) :
          /\ Orphaned(G, h)
          /\ last.dest[1][borrow(G, h).resource[1]] = "Ok"
          /\ borrow(G, h).children # <<>>
          /\ is_some(borrow(G, h).original_handle_in_resource)

\* the global transform of h in g is its parent's cached global transform
\* composed with the local matrix m
ComposedFrom(g, h, m) ==
    borrow(g, h).global_transform =
        Mul(IF pool_try_borrow(g, borrow(g, h).parent) # <<>>
            THEN borrow(g, borrow(g, h).parent).global_transform ELSE Identity,
            m)

\* C37 as stated: when update returns, the cached global transform of every
\* node reachable from root is its parent's cached global transform composed
\* with the node's current local transform.
C37_GlobalConsistent ==
    [][(last'.op = "update" /\ last'.res = "ok") =>
          \A h \in Subtree(G', root') : ComposedFrom(G', h, local_matrix(borrow(G', h)))
    ]_vars

\* C37: when update returns, the cached global transform of every node
\* reachable from root is its parent's cached global transform composed with
\* the local transform the node had when update was called; that is its
\* current local transform except for a RigidBody node with a live body, whose
\* position is now the body's position after the step.
C37_GlobalFromBeforeResync ==
    [][(last'.op = "update" /\ last'.res = "ok") =>
          \A h \in Subtree(G', root') :
             /\ h \in AliveHandles(G)
             /\ ComposedFrom(G', h, local_matrix(borrow(G, h)))
             /\ borrow(G', h).scale = borrow(G, h).scale
             /\ IF borrow(G', h).kind = "RigidBody" /\ borrow(G', h).native \in bodies'
                THEN borrow(G', h).pos = body(G', borrow(G', h).native).pos
                ELSE borrow(G', h).pos = borrow(G, h).pos
    ]_vars

\* update returned and a rigid body node carries the position its body moved
\* to, while its cached global transform is not composed from that position
C37_Witness ==
    /\ last.op = "update" /\ last.res = "ok"
    /\ \E h \in Subtree(G, root) :
          /\ borrow(G, h).kind = "RigidBody" /\ borrow(G, h).native \in bodies
          /\ borrow(G, h).pos = body(G, borrow(G, h).native).pos
          /\ ~ComposedFrom(G, h, local_matrix(borrow(G, h)))
          /\ borrow(G, h).lin_vel = 1

\* update returned for the n-th time in a row, with no other call in between
UpdatedInARow(n) == last.op = "update" /\ last.res = "ok" /\ last.ret >= n

\* the Collider nodes of g whose parent is a RigidBody node and whose shape
\* has a native shape
AttachedColliders(g) ==
    {h \in AliveHandles(g) :
        /\ borrow(g, h).kind = "Collider"
        /\ try_get(g, borrow(g, h).parent) # <<>>
        /\ borrow(g, borrow(g, h).parent).kind = "RigidBody"
        /\ into_native_shape(borrow(g, h).properties["SHAPE"]) # <<>>}

\* every rigid body node has a live body, and every attached collider a live
\* collider on its parent's body that collider_map maps to the node
AllBacked(g) ==
    /\ \A h \in AliveHandles(g) :
          borrow(g, h).kind = "RigidBody" => borrow(g, h).native \in g.bodies
    /\ \A h \in AttachedColliders(g) :
          /\ borrow(g, h).native \in ColliderIds(g)
          /\ map_get(g.collider_map, borrow(g, h).native) = <<h>>
          /\ native_collider(g, borrow(g, h).native).parent
                = borrow(g, borrow(g, h).parent).native

\* C38: from a tree-shaped graph, update never panics in the sync pass; after
\* one update every rigid body node has a live body, and so has every attached
\* collider that lies after its parent in the arena; after two updates in a
\* row every attached collider whose shape converts has a live collider
\* registered in collider_map; an update after those two creates no entity.
C38_BackedAfterTwoUpdates ==
    /\ (last.op \in {"update", "sync_native_physics"} /\ IsTree(Before))
          => last.res = "ok"
    /\ (UpdatedInARow(1) /\ IsTree(Before)) =>
          /\ \A h \in AliveHandles(G) :
                borrow(G, h).kind = "RigidBody" => borrow(G, h).native \in bodies
          /\ \A h \in AttachedColliders(G) :
                borrow(G, h).parent.index < h.index
                   => borrow(G, h).native \in ColliderIds(G)
    /\ (UpdatedInARow(2) /\ IsTree(Before)) => AllBacked(G)
    /\ (UpdatedInARow(3) /\ IsTree(Before)) =>
          /\ NativeIds(G) = NativeIds(Before)
          /\ next_native = Before.next_native
          /\ collider_map = Before.collider_map

\* the second update in a row returned and made the collider of a node that
\* lies before its rigid body in the arena
C38_Witness ==
    /\ UpdatedInARow(2) /\ IsTree(Before) /\ AllBacked(G)
    /\ \E h \in AttachedColliders(G) :
          /\ h.index < borrow(G, h).parent.index
          /\ borrow(Before, h).native \notin ColliderIds(Before)
          /\ borrow(Before, borrow(Before, h).parent).native \in Before.bodies

\* ============================================================ sound sources
\* source.rs: a Source plays the samples of a Buffer it shares through
\* Arc<Mutex<Buffer>>. Buffer (buffer.rs) is outside the sources at hand; it
\* is modelled by the fields and accessors source.rs uses.

\* Positions and steps are f64 values that are multiples of 1/PosDen; the
\* model keeps them as numerators.
PosDen == 2
to_f64(n) == n * PosDen
as_usize(x) == x \div PosDen

\* device::SAMPLE_RATE and the sample rates of the buffers at hand
SAMPLE_RATE == 44100
SampleRates == {22050, 44100, 88200}

\* Buffer shapes: kind, channels, samples per channel held, samples per
\* channel of the whole sound (a streaming buffer holds one block of it).
BufferShapes ==
    {[kind |-> "Regular", channel_count |-> 1, sample_per_channel |-> 3, total_sample_per_channel |-> 3],
     [kind |-> "Regular", channel_count |-> 2, sample_per_channel |-> 2, total_sample_per_channel |-> 2],
     [kind |-> "Regular", channel_count |-> 1, sample_per_channel |-> 0, total_sample_per_channel |-> 0],
     [kind |-> "Stream", channel_count |-> 1, sample_per_channel |-> 2, total_sample_per_channel |-> 4]}

NewBuffer(shape, rate) ==
    [kind |-> shape.kind, channel_count |-> shape.channel_count,
     sample_per_channel |-> shape.sample_per_channel,
     total_sample_per_channel |-> shape.total_sample_per_channel,
     sample_rate |-> rate, block |-> 0, use_count |-> 0, updates |-> 0]

get_kind(buffer) == buffer.kind
get_sample_rate(buffer) == buffer.sample_rate
get_channel_count(buffer) == buffer.channel_count
get_sample_per_channel(buffer) == buffer.sample_per_channel
get_total_sample_per_channel(buffer) == buffer.total_sample_per_channel
is_empty(buffer) == buffer.sample_per_channel = 0
BlockCount(buffer) ==
    IF buffer.sample_per_channel = 0 THEN 1
    ELSE buffer.total_sample_per_channel \div buffer.sample_per_channel
\* Buffer::prepare_read_next_block: the next block of the stream becomes
\* the one held, the first one again after the last.
prepare_read_next_block(buffer) == [buffer EXCEPT !.block = (@ + 1) % BlockCount(buffer)]
rewind(buffer) == [buffer EXCEPT !.block = 0]
\* Buffer::update: Ok or Err; the call is counted in updates, the block held
\* for reading and the fields source.rs reads stay as they are.
buffer_update(buffer) ==
    {[ok |-> ok, buffer |-> [buffer EXCEPT !.updates = @ + 1]] : ok \in BOOLEAN}
\* Buffer::read(offset): every sample of the sound is a different number
read(buffer, offset) ==
    1 + offset + buffer.block * buffer.sample_per_channel * buffer.channel_count

\* use_count is a usize. A wrapping subtraction at 0 gives usize::MAX, which
\* the model writes as -1: the value is kept modulo 2^64 by the
\* representative nearest to zero.
USIZE_MAX == -1
wrapping_add(n) == n + 1
wrapping_sub(n) == n - 1

\* The f32 gains and the samples mixed with them are kept exactly, as
\* fractions <<numerator, denominator>> in lowest terms.
RECURSIVE gcd(_, _)
gcd(a, b) == IF b = 0 THEN a ELSE gcd(b, a % b)
fraction(n, d) ==
    LET k == gcd(IF n < 0 THEN -n ELSE n, d) IN <<n \div k, d \div k>>
whole(n) == <<n, 1>>
times(x, n) == fraction(x[1] * n, x[2])
plus(x, y) == fraction(x[1] * y[2] + y[1] * x[2], x[2] * y[2])

\* SourceKind: Flat, or Spatial with its SpatialSource. A Vec3 is kept as the
\* coordinate along the listener's ear axis: sources and listeners lie on
\* that axis.
Flat == [tag |-> "Flat"]
Spatial(spatial) == [tag |-> "Spatial", spatial |-> spatial]
\* impl Default for SpatialSource
DefaultSpatialSource == [radius |-> 10, position |-> 0]
\* SpatialSource::set_position and SpatialSource::set_radius
SpatialSource_set_position(spatial, place) == [spatial EXCEPT !.position = place]
SpatialSource_set_radius(spatial, radius) == [spatial EXCEPT !.radius = radius]

\* impl Default for Source
DefaultSource ==
    [kind |-> Flat, buffer |-> <<>>, buf_read_pos |-> 0, playback_pos |-> 0,
     pan |-> 0, pitch |-> 1, gain |-> 1, looping |-> FALSE,
     resampling_multiplier |-> to_f64(1), status |-> "Stopped", play_once |-> FALSE,
     left_gain |-> whole(1), right_gain |-> whole(1), distance_gain |-> whole(1)]

\* A use_count that allows Source::new on the buffer.
stream_is_free(buffer) == ~(get_kind(buffer) = "Stream" /\ buffer.use_count # 0)

\* Source::new(kind, buffer): [res, bufs, source]; b is the buffer behind
\* the Arc.
source_new(bufs, kind, b) ==
    IF ~stream_is_free(bufs[b])
    THEN [res |-> "StreamingBufferAlreadyInUse", bufs |-> bufs, source |-> <<>>]
    ELSE [res |-> "Ok",
          bufs |-> [bufs EXCEPT ![b].use_count = wrapping_add(@)],
          source |-> <<[DefaultSource EXCEPT
                          !.kind = kind, !.buffer = <<b>>,
                          !.resampling_multiplier =
                              (get_sample_rate(bufs[b]) * PosDen) \div SAMPLE_RATE]>>]

\* impl Drop for Source: the buffers after the drop. At use_count 0 the
\* subtraction overflows: a build with overflow checks panics, one without
\* wraps.
drop_source(bufs, self) ==
    IF self.buffer = <<>> THEN {[ok |-> TRUE, bufs |-> bufs]}
    ELSE IF bufs[self.buffer[1]].use_count = 0
         THEN {[ok |-> FALSE, bufs |-> bufs],
               [ok |-> TRUE, bufs |-> [bufs EXCEPT ![self.buffer[1]].use_count = USIZE_MAX]]}
         ELSE {[ok |-> TRUE,
                bufs |-> [bufs EXCEPT ![self.buffer[1]].use_count = wrapping_sub(@)]]}

\* impl Visit for Source with a writing visitor: the fields written, the
\* buffer's own data under "Buffer".
visit_write(bufs, self) ==
    [kind |-> self.kind, buffer |-> bufs[self.buffer[1]],
     buf_read_pos |-> self.buf_read_pos, playback_pos |-> self.playback_pos,
     pan |-> self.pan, pitch |-> self.pitch, gain |-> self.gain,
     looping |-> self.looping,
     left_gain |-> self.left_gain, right_gain |-> self.right_gain,
     resampling_multiplier |-> self.resampling_multiplier, status |-> self.status,
     play_once |-> self.play_once]

\* The use_count a buffer has after its own Visit read it: the count written,
\* or Default's 0 when Buffer does not visit the field.
LoadedCounts(data) == {data.buffer.use_count, 0}

\* impl Visit for Source with a reading visitor: every visited field is
\* overwritten; the buffer read is a new one, placed at b, and the count it
\* carries is left as loaded. A buffer self held is let go without a drop.
visit_read(bufs, self, data, b, count) ==
    [bufs |-> Append(bufs, [data.buffer EXCEPT !.use_count = count]),
     source |-> [self EXCEPT
                    !.kind = data.kind, !.buffer = <<b>>,
                    !.buf_read_pos = data.buf_read_pos,
                    !.playback_pos = data.playback_pos,
                    !.pan = data.pan, !.pitch = data.pitch, !.gain = data.gain,
                    !.looping = data.looping,
                    !.left_gain = data.left_gain, !.right_gain = data.right_gain,
                    !.resampling_multiplier = data.resampling_multiplier,
                    !.status = data.status, !.play_once = data.play_once]]

\* Source::set_gain stores the gain; left_gain and right_gain follow at the
\* next update
set_gain(self, gain) == [self EXCEPT !.gain = gain]
set_play_once(self, play_once) == [self EXCEPT !.play_once = play_once]
get_status(self) == self.status
play(self) == [self EXCEPT !.status = "Playing"]
pause(self) == [self EXCEPT !.status = "Paused"]
set_looping(self, looping) == [self EXCEPT !.looping = looping]
\* Source::stop: [source, buffer]
stop(self, buffer) ==
    [source |-> [self EXCEPT !.status = "Stopped", !.buf_read_pos = 0, !.playback_pos = 0],
     buffer |-> rewind(buffer)]

\* The pan and the gains Source::update computes once the buffer is updated:
\* a spatial source takes its pan from the side of the listener it is on (0
\* when "sqr_distance < 0.0001", which for whole coordinates is 0) and its
\* distance gain 1 / (1 + sqr_distance / radius^2), which is the fraction
\* radius^2 / (radius^2 + sqr_distance) for a radius that is not 0; a flat
\* source keeps its pan and has the distance gain 1. Then left_gain = gain *
\* dist_gain * (1 + pan) and right_gain = gain * dist_gain * (1 - pan).
update_gains(self, listener) ==
    LET spatial == self.kind.tag = "Spatial"
        dir == IF spatial THEN self.kind.spatial.position - listener.position ELSE 0
        sqr_distance == dir * dir
        radius == IF spatial THEN self.kind.spatial.radius ELSE 1
        norm_dir == IF dir > 0 THEN 1 ELSE -1
        pan == IF ~spatial THEN self.pan
               ELSE IF sqr_distance = 0 THEN 0
               ELSE norm_dir * listener.ear_axis
        dist_gain == IF ~spatial THEN whole(1)
                     ELSE fraction(radius * radius, radius * radius + sqr_distance)
    IN  [self EXCEPT !.pan = pan,
                     !.distance_gain = dist_gain,
                     !.left_gain = times(dist_gain, self.gain * (1 + pan)),
                     !.right_gain = times(dist_gain, self.gain * (1 - pan))]

\* Source::update(listener): the outcomes [res, bufs, source]. A source with
\* a buffer first locks it and calls Buffer::update: the Err of a poisoned
\* lock returns with nothing changed, the Err of Buffer::update returns with
\* the buffer as that call left it and the source as it was; after an Ok, and
\* for a source without a buffer, the pan and the gains are computed.
source_update(bufs, self, listener) ==
    IF self.buffer = <<>>
    THEN {[res |-> "Ok", bufs |-> bufs, source |-> update_gains(self, listener)]}
    ELSE {[res |-> "Err", bufs |-> bufs, source |-> self]}
         \cup {[res |-> IF r.ok THEN "Ok" ELSE "Err",
                 bufs |-> [bufs EXCEPT ![self.buffer[1]] = r.buffer],
                 source |-> IF r.ok THEN update_gains(self, listener) ELSE self] :
                   r \in buffer_update(bufs[self.buffer[1]])}

sampling_step(self) == self.pitch * self.resampling_multiplier

\* The status at the end of the sound. The variant below stops a looping
\* source as well.
status_at_end_always_stopped(self) == "Stopped"

status_at_end(self) == IF self.looping THEN "Playing" ELSE "Stopped"

\* Source::next_sample_pos(step, buffer): [source, buffer, i]
next_sample_pos(self, step, buffer) ==
    LET moved == [self EXCEPT !.buf_read_pos = @ + step, !.playback_pos = @ + step]
        over == as_usize(moved.buf_read_pos) >= get_sample_per_channel(buffer)
        i == IF over THEN 0 ELSE as_usize(moved.buf_read_pos)
        next == IF over /\ get_kind(buffer) = "Stream"
                THEN prepare_read_next_block(buffer) ELSE buffer
        held == IF over THEN [moved EXCEPT !.buf_read_pos = 0] ELSE moved
    IN  IF held.playback_pos >= to_f64(get_total_sample_per_channel(next))
        THEN [source |-> [held EXCEPT
                            !.playback_pos = 0,
                            !.buf_read_pos =
                                IF held.looping /\ get_kind(next) = "Stream"
                                       /\ get_sample_per_channel(next) # 0
                                THEN to_f64(i % get_sample_per_channel(next))
                                ELSE 0,
                            !.status = status_at_end(held)],
              buffer |-> next, i |-> i]
        ELSE [source |-> held, buffer |-> next, i |-> i]

\* The offsets one frame hands to Buffer::read: i, and for a buffer of two
\* channels i + get_sample_per_channel() as well.
read_offsets(buffer, i) ==
    IF get_channel_count(buffer) = 2
    THEN <<i, i + get_sample_per_channel(buffer)>>
    ELSE <<i>>

\* One frame of the output: mixed into (sample_into) or overwritten
\* (raw_sample_into).
frame(self, buffer, i, old, raw) ==
    LET offsets == read_offsets(buffer, i)
        l == read(buffer, offsets[1])
        r == read(buffer, offsets[Len(offsets)])
    IN  IF raw THEN <<l, r>>
        ELSE <<plus(old[1], times(self.left_gain, l)),
               plus(old[2], times(self.right_gain, r))>>

\* The loop over the output of sample_into and raw_sample_into from frame k
\* on: [source, buffer, out, reads]; reads has, for each frame, the index i
\* next_sample_pos returned, the offsets handed to Buffer::read, and the
\* samples per channel and the channels of the buffer read.
RECURSIVE sample_loop(_, _, _, _, _, _)
sample_loop(self, buffer, out, k, raw, reads) ==
    IF k > Len(out) \/ self.status # "Playing"
    THEN [source |-> self, buffer |-> buffer, out |-> out, reads |-> reads]
    ELSE LET n == next_sample_pos(self, sampling_step(self), buffer)
         IN  sample_loop(n.source, n.buffer,
                         [out EXCEPT ![k] = frame(n.source, n.buffer, n.i, out[k], raw)],
                         k + 1, raw,
                         Append(reads, [i |-> n.i,
                                        offsets |-> read_offsets(n.buffer, n.i),
                                        below |-> get_sample_per_channel(n.buffer),
                                        channels |-> get_channel_count(n.buffer)]))

\* Source::sample_into(mix_buffer)
sample_into(self, buffer, mix_buffer) ==
    IF self.status # "Playing" \/ is_empty(buffer)
    THEN [source |-> self, buffer |-> buffer, out |-> mix_buffer, reads |-> <<>>]
    ELSE sample_loop(self, buffer, mix_buffer, 1, FALSE, <<>>)

\* Source::raw_sample_into(left, right), the two slices as one of pairs
raw_sample_into(self, buffer, left_right) ==
    IF self.status # "Playing" \/ is_empty(buffer)
    THEN [source |-> self, buffer |-> buffer, out |-> left_right, reads |-> <<>>]
    ELSE sample_loop(self, buffer, left_right, 1, TRUE, <<>>)

\* ------------------------------------------- sources sharing buffers
\* No graph is at hand while the sound sources are exercised.
NoGraph ==
    /\ records = <<>> /\ free_stack = <<>> /\ root = NONE
    /\ collider_map = {} /\ bodies = {} /\ colliders = {} /\ joints = {}
    /\ body_data = {} /\ next_native = 1
    /\ tickets = {} /\ subgraphs = {} /\ dead = {}

GraphIdle == UNCHANGED <<GraphVars, tickets, subgraphs, dead>>

\* The last call on a source: the slot s, the buffer b, its result, the output
\* and the state it started from.
SoundCall(op, s, b, res, out, reads) ==
    [op |-> op, s |-> s, b |-> b, res |-> res, out |-> out, reads |-> reads,
     buffers |-> buffers, sources |-> sources]

Slots == 1..MaxSources
Live == {s \in Slots : sources[s] # <<>>}
BufferIds == 1..Len(buffers)
\* the live sources that hold buffer b
Holders(b) == {s \in Live : sources[s][1].buffer = <<b>>}

InitSource ==
    /\ NoGraph /\ calls = 0
    /\ \E first, second \in BufferShapes :
          /\ "Stream" \in {first.kind, second.kind}
          /\ buffers = <<NewBuffer(first, SAMPLE_RATE), NewBuffer(second, SAMPLE_RATE)>>
    /\ sources = [s \in Slots |-> <<>>]
    /\ archive = <<>>
    /\ last = [op |-> "init", s |-> 0, b |-> 0, res |-> "Ok", out |-> <<>>,
               reads |-> <<>>, buffers |-> buffers, sources |-> sources]

\* let source = Source::new(kind, buffer.clone()): kept in slot s when Ok
SourceNew(kind, b, s) ==
    /\ sources[s] = <<>>
    /\ LET r == source_new(buffers, kind, b)
       IN  /\ buffers' = r.bufs
           /\ sources' = [sources EXCEPT ![s] = r.source]
           /\ last' = SoundCall("new", s, b, r.res, <<>>, <<>>)
    /\ calls' = calls + 1
    /\ UNCHANGED archive /\ GraphIdle

\* drop(source)
DropSource(s) ==
    /\ s \in Live
    /\ \E r \in drop_source(buffers, sources[s][1]) :
          /\ buffers' = r.bufs
          /\ sources' = [sources EXCEPT ![s] = <<>>]
          /\ last' = SoundCall("drop", s, sources[s][1].buffer[1],
                               IF r.ok THEN "Ok" ELSE "panic", <<>>, <<>>)
    /\ calls' = calls + 1
    /\ UNCHANGED archive /\ GraphIdle

\* source.visit(name, &mut visitor) with a writing visitor
SaveSource(s) ==
    /\ s \in Live
    /\ Len(archive) < MaxArchive
    /\ archive' = Append(archive, visit_write(buffers, sources[s][1]))
    /\ last' = SoundCall("save", s, sources[s][1].buffer[1], "Ok", <<>>, <<>>)
    /\ calls' = calls + 1
    /\ UNCHANGED <<buffers, sources>> /\ GraphIdle

\* source.visit(name, &mut visitor) with a reading visitor, on the source in
\* slot s or on Source::default() when the slot is empty
LoadSource(s, k) ==
    /\ Len(buffers) < MaxSoundBuffers
    /\ \E count \in LoadedCounts(archive[k]) :
         LET self == IF s \in Live THEN sources[s][1] ELSE DefaultSource
             r == visit_read(buffers, self, archive[k], Len(buffers) + 1, count)
         IN  /\ buffers' = r.bufs
             /\ sources' = [sources EXCEPT ![s] = <<r.source>>]
             /\ last' = SoundCall("load", s, Len(buffers) + 1, "Ok", <<>>, <<>>)
    /\ calls' = calls + 1
    /\ UNCHANGED archive /\ GraphIdle

NextSource ==
    /\ calls < MaxSourceCalls
    /\ last.res # "panic"
    /\ \/ \E b \in BufferIds, s \in Slots : SourceNew(Flat, b, s)
       \/ \E s \in Slots : DropSource(s)
       \/ \E s \in Slots : SaveSource(s)
       \/ \E s \in Slots, k \in 1..Len(archive) : LoadSource(s, k)

SpecSource == InitSource /\ [][NextSource]_vars

\* C39: a streaming buffer is held by at most one live source and every
\* buffer's use_count is the number of live sources holding it, never below
\* zero; Source::new on a streaming buffer in use is an Err that changes
\* nothing, a successful Source::new adds exactly one to the buffer's
\* use_count and a drop takes exactly one away, over any sequence of
\* Source::new, Visit and drop.
C39_UseCountIsHolders ==
    /\ last.res # "panic"
    /\ \A b \in BufferIds :
          /\ buffers[b].use_count = Cardinality(Holders(b))
          /\ buffers[b].use_count >= 0
          /\ get_kind(buffers[b]) = "Stream" => Cardinality(Holders(b)) <= 1
    /\ last.op = "new" =>
          IF get_kind(last.buffers[last.b]) = "Stream" /\ last.buffers[last.b].use_count # 0
          THEN /\ last.res = "StreamingBufferAlreadyInUse"
               /\ buffers = last.buffers /\ sources = last.sources
          ELSE /\ last.res = "Ok"
               /\ buffers[last.b].use_count = last.buffers[last.b].use_count + 1
    /\ last.op = "drop" =>
          buffers[last.b].use_count = last.buffers[last.b].use_count - 1

\* ---------------------------------------------------- playback of a source
\* output handed to sample_into (mixed into) and to raw_sample_into
\* (overwritten)
Silence(n) == [k \in 1..n |-> <<whole(0), whole(0)>>]
Stale(n) == [k \in 1..n |-> <<-1, -1>>]

\* the gains a caller sets (1 is the default), the places and radii it gives a
\* spatial source, and the listeners a source is updated against
Gains == {0, 2}
Places == {0, 10}
Radii == {5, 10}
Listeners == {[position |-> p, ear_axis |-> 1] : p \in Places}

\* One source, flat or spatial, on one buffer of any shape and sample rate,
\* as Source::new leaves them.
InitPlay ==
    /\ NoGraph /\ calls = 0
    /\ \E shape \in BufferShapes, rate \in SampleRates,
          kind \in {Flat, Spatial(DefaultSpatialSource)} :
         LET r == source_new(<<NewBuffer(shape, rate)>>, kind, 1)
         IN  /\ buffers = r.bufs
             /\ sources = [s \in Slots |-> IF s = 1 THEN r.source ELSE <<>>]
    /\ archive = <<>>
    /\ last = [op |-> "new", s |-> 1, b |-> 1, res |-> "Ok", out |-> <<>>,
               reads |-> <<>>, buffers |-> buffers, sources |-> sources]

held(s) == sources[s][1].buffer[1]

\* A call that changes the source only.
OnSource(op, s, source) ==
    /\ s \in Live
    /\ sources' = [sources EXCEPT ![s] = <<source>>]
    /\ last' = SoundCall(op, s, held(s), "Ok", <<>>, <<>>)
    /\ calls' = calls + 1
    /\ UNCHANGED <<buffers, archive>> /\ GraphIdle

Play(s) == OnSource("play", s, play(sources[s][1]))
Pause(s) == OnSource("pause", s, pause(sources[s][1]))
SetLooping(s, looping) == OnSource("set_looping", s, set_looping(sources[s][1], looping))
SetGain(s, gain) == OnSource("set_gain", s, set_gain(sources[s][1], gain))
SetPlayOnce(s, play_once) ==
    OnSource("set_play_once", s, set_play_once(sources[s][1], play_once))
\* "if let SourceKind::Spatial(spatial) = source.get_kind_mut()" and then
\* spatial.set_position(&position) or spatial.set_radius(radius)
OnSpatial(op, s, spatial) ==
    /\ s \in Live /\ sources[s][1].kind.tag = "Spatial"
    /\ OnSource(op, s, [sources[s][1] EXCEPT !.kind = Spatial(spatial)])
SetSpatialPosition(s, place) ==
    OnSpatial("set_position", s,
              SpatialSource_set_position(sources[s][1].kind.spatial, place))
SetSpatialRadius(s, radius) ==
    OnSpatial("set_radius", s,
              SpatialSource_set_radius(sources[s][1].kind.spatial, radius))
\* source.update(&listener), as the context does for each source before
\* it samples them
UpdateSource(s, listener) ==
    /\ s \in Live
    /\ \E r \in source_update(buffers, sources[s][1], listener) :
          /\ buffers' = r.bufs
          /\ sources' = [sources EXCEPT ![s] = <<r.source>>]
          /\ last' = SoundCall("update", s, held(s), r.res, <<>>, <<>>)
    /\ calls' = calls + 1
    /\ UNCHANGED archive /\ GraphIdle

Stop(s) ==
    /\ s \in Live
    /\ LET r == stop(sources[s][1], buffers[held(s)])
       IN  /\ sources' = [sources EXCEPT ![s] = <<r.source>>]
           /\ buffers' = [buffers EXCEPT ![held(s)] = r.buffer]
    /\ last' = SoundCall("stop", s, held(s), "Ok", <<>>, <<>>)
    /\ calls' = calls + 1
    /\ UNCHANGED archive /\ GraphIdle

\* A call that samples: r is what it leaves.
Sampled(op, s, r) ==
    /\ sources' = [sources EXCEPT ![s] = <<r.source>>]
    /\ buffers' = [buffers EXCEPT ![held(s)] = r.buffer]
    /\ last' = SoundCall(op, s, held(s), "Ok", r.out, r.reads)
    /\ calls' = calls + 1
    /\ UNCHANGED archive /\ GraphIdle

SampleInto(s, n) ==
    /\ s \in Live
    /\ Sampled("sample_into", s, sample_into(sources[s][1], buffers[held(s)], Silence(n)))

RawSampleInto(s, n) ==
    /\ s \in Live
    /\ Sampled("raw_sample_into", s, raw_sample_into(sources[s][1], buffers[held(s)], Stale(n)))

NextPlay ==
    /\ calls < MaxPlayCalls
    /\ \E s \in Slots :
          \/ Play(s)
          \/ Pause(s)
          \/ Stop(s)
          \/ \E looping \in BOOLEAN : SetLooping(s, looping)
          \/ \E gain \in Gains : SetGain(s, gain)
          \/ \E play_once \in BOOLEAN : SetPlayOnce(s, play_once)
          \/ \E place \in Places : SetSpatialPosition(s, place)
          \/ \E radius \in Radii : SetSpatialRadius(s, radius)
          \/ \E listener \in Listeners : UpdateSource(s, listener)
          \/ \E n \in 1..MaxFrames : SampleInto(s, n)
          \/ \E n \in 1..MaxFrames : RawSampleInto(s, n)
          \/ SaveSource(s)
          \/ s \in Live /\ \E k \in 1..Len(archive) : LoadSource(s, k)

SpecPlay == InitPlay /\ [][NextPlay]_vars

\* the source the last call was made on, before and after it
Was == last.sources[last.s][1]
Now == sources[last.s][1]
SamplingOps == {"sample_into", "raw_sample_into"}
Given == IF last.op = "sample_into" THEN Silence(Len(last.out)) ELSE Stale(Len(last.out))

\* the playback position n frames on: back at 0 whenever the end is reached
RECURSIVE PlayedTo(_, _, _, _)
PlayedTo(pos, step, total, n) ==
    IF n = 0 THEN pos
    ELSE PlayedTo(IF pos + step >= total THEN 0 ELSE pos + step, step, total, n - 1)

\* C40: sample_into and raw_sample_into change the source, the buffer and
\* the output only when the source is Playing; every index next_sample_pos
\* returns is below the buffer's samples per channel; the sample read for the
\* left channel is the one at that index and, for a buffer of two channels,
\* the one for the right channel is at the index plus the samples per
\* channel, below the samples per channel times the channels; a frame is
\* written for every index read and no other (raw_sample_into overwrites it
\* with the samples, sample_into adds the samples times the gains of the last
\* update, which leaves the channel of a gain 0 as it was); a looping source
\* stays Playing and fills the whole output, its playback position back at 0
\* each time it reaches the end of the sound; a non-looping source that
\* reaches the end is Stopped with both positions 0 and reads no further;
\* stop() leaves Stopped with both positions 0; pause() and play() keep the
\* positions; update() keeps the status and the positions and, when it
\* returns an Err, the whole source; a Stopped or Paused source becomes
\* Playing only by play() or by a reading Visit, which gives it the status
\* that was written.
C40_Playback ==
    LET total == to_f64(get_total_sample_per_channel(last.buffers[last.b]))
        step == sampling_step(Was)
        n == Len(last.reads)
    IN
    /\ last.op \in SamplingOps =>
          /\ Was.status # "Playing" =>
                Now = Was /\ buffers = last.buffers /\ last.out = Given /\ n = 0
          /\ \A k \in 1..n :
                /\ last.reads[k].i >= 0 /\ last.reads[k].i < last.reads[k].below
                /\ last.reads[k].offsets =
                      IF last.reads[k].channels = 2
                      THEN <<last.reads[k].i, last.reads[k].i + last.reads[k].below>>
                      ELSE <<last.reads[k].i>>
                /\ \A j \in 1..Len(last.reads[k].offsets) :
                      /\ last.reads[k].offsets[j] >= 0
                      /\ last.reads[k].offsets[j]
                            < last.reads[k].below * last.reads[k].channels
          /\ n <= Len(last.out)
          /\ \A k \in 1..Len(last.out) :
                IF k > n THEN last.out[k] = Given[k]
                ELSE IF last.op = "raw_sample_into"
                THEN last.out[k][1] # Given[k][1] /\ last.out[k][2] # Given[k][2]
                ELSE /\ (last.out[k][1] # Given[k][1]) = (Was.left_gain # whole(0))
                     /\ (last.out[k][2] # Given[k][2]) = (Was.right_gain # whole(0))
          /\ (Was.status = "Playing" /\ ~is_empty(last.buffers[last.b])) =>
                /\ n >= 1
                /\ Now.looping = Was.looping
                /\ Was.looping =>
                      /\ Now.status = "Playing" /\ n = Len(last.out)
                      /\ Now.playback_pos = PlayedTo(Was.playback_pos, step, total, n)
                /\ ~Was.looping =>
                      IF Was.playback_pos + n * step >= total
                      THEN /\ Now.status = "Stopped"
                           /\ Now.playback_pos = 0 /\ Now.buf_read_pos = 0
                           /\ Was.playback_pos + (n - 1) * step < total
                      ELSE /\ Now.status = "Playing" /\ n = Len(last.out)
                           /\ Now.playback_pos = Was.playback_pos + n * step
    /\ last.op = "stop" =>
          Now.status = "Stopped" /\ Now.buf_read_pos = 0 /\ Now.playback_pos = 0
    /\ last.op = "pause" =>
          /\ Now.status = "Paused"
          /\ Now.buf_read_pos = Was.buf_read_pos /\ Now.playback_pos = Was.playback_pos
    /\ last.op = "play" =>
          /\ Now.status = "Playing"
          /\ Now.buf_read_pos = Was.buf_read_pos /\ Now.playback_pos = Was.playback_pos
    /\ last.op = "update" =>
          /\ Now.status = Was.status
          /\ Now.buf_read_pos = Was.buf_read_pos /\ Now.playback_pos = Was.playback_pos
          /\ last.res = "Err" => Now = Was
    /\ last.op = "load" => \E k \in 1..Len(archive) : Now.status = archive[k].status
    /\ (last.op # "new" /\ Was.status \in {"Stopped", "Paused"} /\ Now.status = "Playing") =>
          last.op \in {"play", "load"}

\* C40 as stated: every offset handed to Buffer::read is below the buffer's
\* samples per channel, and only play() makes a Stopped or Paused source
\* Playing.
C40_ReadsBelowPerChannel ==
    /\ last.op \in SamplingOps =>
          \A k \in 1..Len(last.reads) :
             \A j \in 1..Len(last.reads[k].offsets) :
                last.reads[k].offsets[j] < last.reads[k].below
    /\ (last.op # "new" /\ Was.status \in {"Stopped", "Paused"} /\ Now.status = "Playing") =>
          last.op = "play"

\* C40 witness: a non-looping source on a buffer of two channels played over
\* several frames to the end of its sound, the right channel read past the
\* samples of the left one
C40_Witness ==
    /\ last.op \in SamplingOps
    /\ Was.status = "Playing" /\ ~Was.looping /\ Was.playback_pos > 0
    /\ Len(last.reads) > 1 /\ Len(last.reads) < Len(last.out)
    /\ \A k \in 1..Len(last.reads) :
          /\ last.reads[k].channels = 2
          /\ last.reads[k].offsets[2] >= last.reads[k].below
    /\ Now.status = "Stopped"

====
